---- MODULE Spec2Model ----
(***************************************************************************)
(* Model of the audit-service request pipeline:                            *)
(*   middleware.Auth -> handlers.GetHistory -> auditService.GetAuditLogs   *)
(*   -> auditRepository -> Supabase backend,                               *)
(* together with the shared cache.TokenCache (a go-cache store) and the    *)
(* jwt.tokenValidator.  Strings are sequences of one-character strings;    *)
(* Str turns them into the byte string used as a cache key.  Time is a     *)
(* clock of minutes.                                                       *)
(***************************************************************************)
EXTENDS Integers, Sequences, FiniteSets, TLC

VARIABLES
    now,        \* time.Now(), in minutes since process start
    cache,      \* go-cache items map: key string -> [Object, Expiration]
    req,        \* the in-flight requests (one gin.Context per worker)
    shares,     \* backend table session_shares: set of <<token, session_id>>
    jwtSecret,  \* package variable jwt.jwtSecret
    verifyKey,  \* tokenValidator.verifyKey ("nil" in HMAC mode)
    setAt       \* history: key -> time of the last Set not invalidated since

vars == <<now, cache, req, shares, jwtSecret, verifyKey, setAt>>

----------------------------------------------------------------------------
(* Bounds of the model *)

MaxTime == 3

(* two requests, each served by its own worker: they may overlap in any *)
(* way, or the second may start after the first has been answered       *)
Requests == {"w1", "w2"}

----------------------------------------------------------------------------
(* Configuration: the cache TTLs handed to NewTokenCache, scaled down to *)
(* clock ticks, and the share entry's synthetic expiry (24h in minutes). *)

JwtTTL == 2
ShareTTL == 1
ShareDefaultExpiry == 1440


----------------------------------------------------------------------------
(* Strings *)

RECURSIVE Str(_)
Str(s) == IF s = <<>> THEN "" ELSE Head(s) \o Str(Tail(s))

Upper == <<"A","B","C","D","E","F","G","H","I","J","K","L","M",
           "N","O","P","Q","R","S","T","U","V","W","X","Y","Z">>
Lower == <<"a","b","c","d","e","f","g","h","i","j","k","l","m",
           "n","o","p","q","r","s","t","u","v","w","x","y","z">>
Digits == <<"0","1","2","3","4","5","6","7","8","9">>

IsSpace(c) == c \in {" ", "\t", "\n", "\r"}

ToLowerChar(c) ==
    IF \E i \in 1..26 : Upper[i] = c
    THEN Lower[CHOOSE i \in 1..26 : Upper[i] = c]
    ELSE c

ToLower(s) == [i \in 1..Len(s) |-> ToLowerChar(s[i])]

RECURSIVE TrimLeft(_)
TrimLeft(s) ==
    IF s # <<>> /\ IsSpace(Head(s)) THEN TrimLeft(Tail(s)) ELSE s

RECURSIVE TrimRight(_)
TrimRight(s) ==
    IF s # <<>> /\ IsSpace(s[Len(s)])
    THEN TrimRight(SubSeq(s, 1, Len(s) - 1))
    ELSE s

TrimSpace(s) == TrimRight(TrimLeft(s))

IsDigit(c) == \E i \in 1..10 : Digits[i] = c
DigitVal(c) == (CHOOSE i \in 1..10 : Digits[i] = c) - 1

RECURSIVE DigitsVal(_)
DigitsVal(s) ==
    IF s = <<>> THEN 0
    ELSE 10 * DigitsVal(SubSeq(s, 1, Len(s) - 1)) + DigitVal(s[Len(s)])

(* strconv.Atoi: optional sign, then one or more decimal digits *)
Atoi(s) ==
    LET signed == s # <<>> /\ Head(s) \in {"+", "-"}
        body   == IF signed THEN Tail(s) ELSE s
    IN  IF body = <<>> \/ \E i \in 1..Len(body) : ~IsDigit(body[i])
        THEN [err |-> TRUE, val |-> 0]
        ELSE [err |-> FALSE,
              val |-> IF signed /\ Head(s) = "-"
                      THEN 0 - DigitsVal(body) ELSE DigitsVal(body)]

IsHex(c) ==
    \/ IsDigit(c)
    \/ c \in {"a","b","c","d","e","f"}
    \/ c \in {"A","B","C","D","E","F"}

(* mutation: every session id passes *)
isValidUUID_Any(uuid) == TRUE

(* handlers.isValidUUID; Go indexes from 0, sequences from 1 *)
isValidUUID(uuid) ==
    /\ Len(uuid) = 36
    /\ uuid[9] = "-" /\ uuid[14] = "-" /\ uuid[19] = "-" /\ uuid[24] = "-"
    /\ \A i \in 1..36 : i \in {9, 14, 19, 24} \/ IsHex(uuid[i])

(* middleware.extractBearerToken *)
extractBearerToken(authHeader) ==
    LET h == TrimSpace(authHeader)
    IN  IF Len(h) < 7 \/ ToLower(SubSeq(h, 1, 6)) # <<"b","e","a","r","e","r">>
        THEN <<>>
        ELSE TrimSpace(SubSeq(h, 7, Len(h)))

----------------------------------------------------------------------------
(* Request inputs *)

S1 == <<"5","5","0","e","8","4","0","0","-","e","2","9","b","-","4","1","d","4",
        "-","a","7","1","6","-","4","4","6","6","5","5","4","4","0","0","0","0">>
S3 == <<"5","5","0","E","8","4","0","0","-","e","2","9","b","-","4","1","d","4",
        "-","a","7","1","6","-","4","4","6","6","5","5","4","4","0","0","0","3">>
(* a session whose stored owner is null *)
S0 == <<"5","5","0","e","8","4","0","0","-","e","2","9","b","-","4","1","d","4",
        "-","a","7","1","6","-","4","4","6","6","5","5","4","4","0","0","0","9">>
SBad == <<"n","o","t","-","a","-","u","u","i","d">>
(* S1 with a letter that is no hexadecimal digit *)
SNotHex == <<"g","5","0","e","8","4","0","0","-","e","2","9","b","-","4","1","d","4",
             "-","a","7","1","6","-","4","4","6","6","5","5","4","4","0","0","0","0">>

SessionIDs == {S1, S3, SBad, SNotHex, <<>>}

STK  == <<"S","T","K">>
SBAD == <<"B","A","D">>
ShareTokens == {<<>>, STK, SBAD}

tU == <<"t","U">>
tV == <<"t","V">>
tN == <<"t","N">>
tX == <<"t","X">>
(* tokens handed to the verifier directly *)
tR == <<"t","R">>
tQ == <<"t","Q">>
tP == <<"t","P">>
tE == <<"t","E">>
tO == <<"t","O">>
tK == <<"t","K">>
tF == <<"t","F">>
tZ == <<"t","Z">>
tL == <<"t","L">>
tW == <<"t","W">>
tS == <<"t","S">>
VerifierTokens == {tU, tV, tN, tX, tR, tQ, tP, tE, tO, tK, tF, tZ, tL, tW, tS, <<"x">>}

Bearer == <<"B","e","a","r","e","r">>
AuthHeaders ==
    { <<>>,
      Bearer \o <<" ">> \o tU,
      Bearer \o <<" ">> \o tV,
      <<" ","b","e","a","r","e","r"," "," ">> \o tN \o <<" ">>,
      <<"B","E","A","R","E","R"," ">> \o tX,
      <<"B","a","s","i","c"," ","x","x","x">>,
      Bearer \o <<" ">> }

(* forms of the Authorization header: scheme and token joined by a       *)
(* blank, by a tab, by several blanks, by nothing; the scheme alone;      *)
(* another scheme; a bare token                                           *)
HeaderForms ==
    { <<>>,
      Bearer \o <<" ">> \o tU,
      Bearer \o tU,
      <<"b","e","a","r","e","r","\t">> \o tU,
      <<" ","B","E","A","R","E","R"," "," ">> \o tV \o <<" ">>,
      Bearer,
      Bearer \o <<" ", " ">>,
      <<"B","a","s","i","c"," ">> \o tU,
      tU,
      <<" ", " ">> }

(* share tokens and session ids that contain the key separator *)
tA == <<"a">>
tAB == <<"a",":","b">>
sC == <<"c">>
sBC == <<"b",":","c">>
SharePairs == { <<tAB, sC>>, <<tA, sBC>>, <<tA, sC>> }

(* a query parameter: present or not, and its raw text *)
Absent == [present |-> FALSE, text |-> <<>>]
Given(text) == [present |-> TRUE, text |-> text]

LimitQueries == { Absent, Given(<<"0">>), Given(<<"2">>), Given(<<"5","0","0">>),
                  Given(<<"-","1">>), Given(<<"a","b","c">>), Given(<< >>) }
OffsetQueries == { Absent, Given(<<"1">>), Given(<<"-","3">>), Given(<<"1","x">>) }

(* PaginationParams as callers of GetAuditLogs may build them *)
RawLimits == {-1, 0, 1, 50, 100, 101, 500}
RawOffsets == {-5, 0, 3}

(* gin.Context.DefaultQuery *)
DefaultQuery(q, def) == IF q.present THEN q.text ELSE def

----------------------------------------------------------------------------
(* Backend data (read-only for the service) *)

(* table sessions: id -> user_id; S3 has no row, the user_id of S0 is     *)
(* null and decodes to the empty string                                   *)
SessionRows(id) ==
    IF id = Str(S1) THEN << [id |-> id, user_id |-> "U"] >>
    ELSE IF id = Str(S0) THEN << [id |-> id, user_id |-> ""] >>
    ELSE << >>

(* table audit_logs, newest first: entries are [id, timestamp] *)
AuditRows(id) ==
    IF id = Str(S1)
    THEN << [id |-> "e3", timestamp |-> 30], [id |-> "e2", timestamp |-> 20],
            [id |-> "e1", timestamp |-> 10] >>
    ELSE IF id = Str(S0) THEN << [id |-> "e9", timestamp |-> 5] >>
    ELSE << >>

----------------------------------------------------------------------------
(* jwt.tokenValidator *)

NilTime == 0 - 1
HmacBlob == "secretB"
(* a verification blob that is an RSA public key in PEM, and its key *)
RsaPem == "pemK"
RsaKey == "rsaK"

(* The compact tokens of the model, decoded: header alg, the key that    *)
(* signed them and the registered claims.  Any other string is not a JWT. *)
JwtTable ==
    [ tU |-> [alg |-> "HMAC", key |-> HmacBlob, sub |-> "U", exp |-> 60, iat |-> 0, uid |-> ""],
      tV |-> [alg |-> "HMAC", key |-> HmacBlob, sub |-> "V", exp |-> 1,  iat |-> 0, uid |-> ""],
      tN |-> [alg |-> "HMAC", key |-> HmacBlob, sub |-> "U", exp |-> NilTime, iat |-> 0, uid |-> ""],
      tX |-> [alg |-> "HMAC", key |-> "forged", sub |-> "U", exp |-> 60, iat |-> 0, uid |-> ""],
      \* RSA-signed with the configured key, and with another key
      tR |-> [alg |-> "RSA", key |-> RsaKey, sub |-> "U", exp |-> 60, iat |-> 0, uid |-> ""],
      tQ |-> [alg |-> "RSA", key |-> "rsaOther", sub |-> "U", exp |-> 60, iat |-> 0, uid |-> ""],
      \* other algorithm classes: RSA-PSS, ECDSA, none
      tP |-> [alg |-> "RSAPSS", key |-> RsaKey, sub |-> "U", exp |-> 60, iat |-> 0, uid |-> ""],
      tE |-> [alg |-> "ECDSA", key |-> "ecK", sub |-> "U", exp |-> 60, iat |-> 0, uid |-> ""],
      tO |-> [alg |-> "none", key |-> "", sub |-> "U", exp |-> 60, iat |-> 0, uid |-> ""],
      \* HMAC-signed with the PEM text of the RSA public key as the secret
      tK |-> [alg |-> "HMAC", key |-> RsaPem, sub |-> "U", exp |-> 60, iat |-> 0, uid |-> ""],
      \* issued in the future; without exp and iat; exp and iat the same instant
      tF |-> [alg |-> "HMAC", key |-> HmacBlob, sub |-> "U", exp |-> 60, iat |-> 2, uid |-> ""],
      tZ |-> [alg |-> "HMAC", key |-> HmacBlob, sub |-> "", exp |-> NilTime, iat |-> NilTime, uid |-> ""],
      \* no subject, but a payload member named UserID
      tW |-> [alg |-> "HMAC", key |-> HmacBlob, sub |-> "", exp |-> 60, iat |-> 0, uid |-> "U"],
      tL |-> [alg |-> "HMAC", key |-> HmacBlob, sub |-> "V", exp |-> 2, iat |-> 2, uid |-> ""],
      \* validly signed, with exp, without subject
      tS |-> [alg |-> "HMAC", key |-> HmacBlob, sub |-> "", exp |-> 60, iat |-> 0, uid |-> ""] ]

IsJwt(tokenString) == tokenString \in DOMAIN JwtTable

NoClaims == [Subject |-> "", ExpiresAt |-> NilTime, IssuedAt |-> NilTime, UserID |-> ""]

(* jwt.NewTokenValidator: the verifyKey of the validator, "nil" when the  *)
(* blob is no RSA public key in PEM                                       *)
NewTokenValidator(blob) == IF blob = RsaPem THEN RsaKey ELSE "nil"

(* mutation: an HMAC token gets the secret whatever the mode *)
KeyFunc_HmacAlways(alg, vKey, secret) ==
    CASE alg = "RSA"  -> IF vKey = "nil" THEN [err |-> TRUE, key |-> ""]
                         ELSE [err |-> FALSE, key |-> vKey]
      [] alg = "HMAC" -> [err |-> FALSE, key |-> secret]
      [] OTHER        -> [err |-> TRUE, key |-> ""]

(* the key function handed to jwt.ParseWithClaims *)
KeyFunc(alg, vKey, secret) ==
    CASE alg = "RSA"  -> IF vKey = "nil" THEN [err |-> TRUE, key |-> ""]
                         ELSE [err |-> FALSE, key |-> vKey]
      [] alg = "HMAC" -> IF vKey # "nil" THEN [err |-> TRUE, key |-> ""]
                         ELSE [err |-> FALSE, key |-> secret]
      [] OTHER        -> [err |-> TRUE, key |-> ""]

(* mutation: the signature is not compared with the key *)
ParseWithClaims_NoSignature(tokenString, vKey, secret, t) ==
    IF ~IsJwt(tokenString) THEN [err |-> TRUE, claims |-> NoClaims]
    ELSE LET j == JwtTable[tokenString]
             \* the payload decoded into Claims: UserID has no json tag, so a
             \* member of that name fills it
             c == [Subject |-> j.sub, ExpiresAt |-> j.exp, IssuedAt |-> j.iat,
                   UserID |-> j.uid]
         IN  IF j.exp # NilTime /\ ~(t < j.exp)
             THEN [err |-> TRUE, claims |-> NoClaims]
             ELSE [err |-> FALSE, claims |-> c]

(* jwt.ParseWithClaims: segments, key function, signature, then the      *)
(* library's claim validation (exp must be after the current time)       *)
ParseWithClaims(tokenString, vKey, secret, t) ==
    IF ~IsJwt(tokenString) THEN [err |-> TRUE, claims |-> NoClaims]
    ELSE LET j == JwtTable[tokenString]
             k == KeyFunc(j.alg, vKey, secret)
             \* the payload decoded into Claims: UserID has no json tag, so a
             \* member of that name fills it
             c == [Subject |-> j.sub, ExpiresAt |-> j.exp, IssuedAt |-> j.iat,
                   UserID |-> j.uid]
         IN  IF k.err \/ k.key # j.key THEN [err |-> TRUE, claims |-> NoClaims]
             ELSE IF j.exp # NilTime /\ ~(t < j.exp)
                  THEN [err |-> TRUE, claims |-> NoClaims]
                  ELSE [err |-> FALSE, claims |-> c]

(* tokenValidator.ValidateToken *)
ValidateToken(tokenString, vKey, secret, t) ==
    LET p == ParseWithClaims(tokenString, vKey, secret, t)
        c == p.claims
    IN  IF p.err THEN [err |-> TRUE, claims |-> NoClaims]
        ELSE IF c.ExpiresAt # NilTime /\ c.ExpiresAt < t
             THEN [err |-> TRUE, claims |-> NoClaims]
        ELSE IF c.IssuedAt # NilTime /\ c.IssuedAt > t
             THEN [err |-> TRUE, claims |-> NoClaims]
        ELSE [err |-> FALSE,
              claims |-> IF c.Subject # "" THEN [c EXCEPT !.UserID = c.Subject] ELSE c]

----------------------------------------------------------------------------
(* cache.TokenCache over a go-cache store *)

(* hex(sha256(token)) of the model's tokens *)
Sha256Hex(tokenString) ==
    CASE tokenString = "tU" -> "f3bb71106b0c1cf2b8a86725736238e7e9bc6e94970881e37e7daf76ba95f9fe"
      [] tokenString = "tV" -> "05a6f1ec7459b3145e3590e1765322963720e766725da43f6039db0c5c99279e"
      [] tokenString = "tN" -> "373f02a5f2b6ade271be382f142d64274a82598fd0096a4c7df03c4fb9e96c0b"
      [] tokenString = "tX" -> "2abdfeb9239d372e9083240f0ec724cff29673073be43d47153f2e5a1f543bbf"
      [] tokenString = "tR" -> "ed8c5f3746bbae191f4cb59f7f985d19ebb9f2914a36ec89597d56f8885aa22d"
      [] tokenString = "tQ" -> "8561963274ad4b5ca175d54e04d54ed69da0dd5caf33d1b42fe2ba443181314d"
      [] tokenString = "tP" -> "73f9818196b42809dbdad00e7e0e80324921ea14d859ab9e89558b13895ba036"
      [] tokenString = "tE" -> "50509dd2ee06866eada8a2874a88764414f1bd6d7e3064f36c204d3802b6644c"
      [] tokenString = "tO" -> "ac57e48d83a9a66ef54d4d9fdb30bc3c54430650c71d85ee045ca16c426303a3"
      [] tokenString = "tK" -> "210c163506a8612cc88bd448b4cf01d7646fa80390ad547f30383375e3264c69"
      [] tokenString = "tF" -> "50c5a8af6113bfdb56d58900581eebc29130853232fbcfa8df75f8b3c600c052"
      [] tokenString = "tZ" -> "108ab61eaf62e774dcf793c4755ce0d43ea752c8fd4b5cbceb1908c5cec5ec8d"
      [] tokenString = "tW" -> "ca09e466bf3b7ed5f5694d66e0c995a59ebbd9c2c901d8dee5a7aae9ed23d100"
      [] tokenString = "tL" -> "aa870ac38e32f49681d224d2edf6f7c6eae585722c65a9ed1c85340c304c133d"
      [] tokenString = "tS" -> "e04fd6756c3e077c61d1d5dc69a87ac9ea7371bc7bd5890c1b306732ad63e0af"

getJWTKey(token) == "jwt:" \o Sha256Hex(token)

getShareTokenKey(token, sessionID) == "share:" \o token \o ":" \o sessionID

NoInfo == [UserID |-> "", SessionID |-> "", ExpiresAt |-> NilTime]

(* mutation: every item is stored without expiration *)
CacheSet_Forever(c, key, info, ttl, t) ==
    [k \in DOMAIN c \cup {key} |->
        IF k = key THEN [Object |-> info, Expiration |-> 0] ELSE c[k]]

(* go-cache Set: Expiration = now + d for d > 0, else 0 (never expires) *)
CacheSet(c, key, info, ttl, t) ==
    [k \in DOMAIN c \cup {key} |->
        IF k = key
        THEN [Object |-> info, Expiration |-> IF ttl > 0 THEN t + ttl ELSE 0]
        ELSE c[k]]

(* mutation: an item is gone already at its Expiration *)
CacheGet_Early(c, key, t) ==
    IF key \in DOMAIN c /\ ~(c[key].Expiration > 0 /\ t >= c[key].Expiration)
    THEN [found |-> TRUE, info |-> c[key].Object]
    ELSE [found |-> FALSE, info |-> NoInfo]

(* go-cache Get: an item past its Expiration is not found, but stays stored *)
CacheGet(c, key, t) ==
    IF key \in DOMAIN c /\ ~(c[key].Expiration > 0 /\ t > c[key].Expiration)
    THEN [found |-> TRUE, info |-> c[key].Object]
    ELSE [found |-> FALSE, info |-> NoInfo]

(* mutation: Delete removes nothing *)
CacheDelete_Keeps(c, key) == c

CacheDelete(c, key) == [k \in DOMAIN c \ {key} |-> c[k]]

(* mutation: the janitor flushes the store *)
CacheDeleteExpired_Flush(c, t) == [k \in {} |-> 0]

(* go-cache DeleteExpired, run by the janitor every cleanupInterval *)
CacheDeleteExpired(c, t) ==
    [k \in {x \in DOMAIN c : ~(c[x].Expiration > 0 /\ t > c[x].Expiration)} |-> c[k]]

(* TokenCache.Stats()["items"] *)
ItemCount(c) == Cardinality(DOMAIN c)

EmptyCache == [k \in {} |-> 0]

----------------------------------------------------------------------------
(* Backend replies *)

(* no AuditResponse written; itemsNull: the items field is JSON null *)
NoBody == [totalCount |-> 0, items |-> << >>, itemsNull |-> FALSE]

(* no query sent, no body received *)
NoQuery ==
    [ session_id |-> << >>, order |-> "", limit |-> << >>, offset |-> << >>, select |-> "" ]

NoData == [json |-> "", rows |-> << >>]

Min(a, b) == IF a < b THEN a ELSE b

(* PostgREST limit/offset over the ordered rows *)
Page(rows, limit, offset) == SubSeq(rows, offset + 1, Min(offset + limit, Len(rows)))

(* a backend call answers, or fails in transport, or its body fails to decode *)
Outcomes == {"ok", "transport", "decode"}

(* mutation: the upper bound of limit is not applied *)
Validate_NoMax(p) ==
    [Limit |-> IF p.Limit <= 0 THEN 50 ELSE p.Limit,
     Offset |-> IF p.Offset < 0 THEN 0 ELSE p.Offset]

(* PaginationParams.Validate *)
Validate(p) ==
    LET l1 == IF p.Limit <= 0 THEN 50 ELSE p.Limit
        l2 == IF l1 > 100 THEN 100 ELSE l1
    IN  [Limit |-> l2, Offset |-> IF p.Offset < 0 THEN 0 ELSE p.Offset]

(* An error value is the sequence of the layers of its Unwrap chain, the  *)
(* outermost first; << >> is nil. A layer is a sentinel of package domain *)
(* or a foreign error.                                                    *)
Sentinels ==
    { "ErrUnauthorized", "ErrInvalidToken", "ErrTokenExpired", "ErrMissingToken",
      "ErrForbidden", "ErrAccessDenied", "ErrNotFound", "ErrSessionNotFound",
      "ErrInvalidSessionID", "ErrInvalidPagination",
      "ErrServiceUnavailable", "ErrTimeout" }

(* fmt.Errorf("...: %w", err) *)
Errorf(err) == <<"fmt.Errorf">> \o err

(* errors.Is(err, target) for a sentinel target *)
Is(err, target) == \E i \in 1..Len(err) : err[i] = target

(* what SupabaseClient.Get or json.Unmarshal report for a failed call *)
BackendError(outcome) ==
    CASE outcome = "transport" -> Errorf(<<"url.Error">>)
      [] outcome = "deadline"  -> Errorf(<<"url.Error", "context.DeadlineExceeded">>)
      [] OTHER -> <<"json.SyntaxError">>

(* mutation: Forbidden is reported as NotFound *)
ToAPIError_ForbiddenHidden(err) ==
    IF \/ Is(err, "ErrUnauthorized") \/ Is(err, "ErrInvalidToken")
       \/ Is(err, "ErrTokenExpired") \/ Is(err, "ErrMissingToken")
    THEN [Status |-> 401, Code |-> "unauthorized"]
    ELSE IF \/ Is(err, "ErrForbidden") \/ Is(err, "ErrAccessDenied")
            \/ Is(err, "ErrNotFound") \/ Is(err, "ErrSessionNotFound")
    THEN [Status |-> 404, Code |-> "not_found"]
    ELSE [Status |-> 500, Code |-> "internal_server_error"]

(* mutation: only the outermost layer of the error is looked at *)
ToAPIError_Outermost(err) ==
    LET kind == IF err = << >> THEN "" ELSE err[1]
    IN  IF kind \in {"ErrUnauthorized", "ErrInvalidToken", "ErrTokenExpired", "ErrMissingToken"}
        THEN [Status |-> 401, Code |-> "unauthorized"]
        ELSE IF kind \in {"ErrForbidden", "ErrAccessDenied"}
        THEN [Status |-> 403, Code |-> "forbidden"]
        ELSE IF kind \in {"ErrNotFound", "ErrSessionNotFound"}
        THEN [Status |-> 404, Code |-> "not_found"]
        ELSE IF kind \in {"ErrInvalidSessionID", "ErrInvalidPagination"}
        THEN [Status |-> 400, Code |-> "bad_request"]
        ELSE IF kind = "ErrServiceUnavailable"
        THEN [Status |-> 503, Code |-> "service_unavailable"]
        ELSE IF kind = "ErrTimeout"
        THEN [Status |-> 504, Code |-> "timeout"]
        ELSE [Status |-> 500, Code |-> "internal_server_error"]

(* domain.ToAPIError: the switch over errors.Is, in the order of its cases *)
ToAPIError(err) ==
    IF \/ Is(err, "ErrUnauthorized") \/ Is(err, "ErrInvalidToken")
       \/ Is(err, "ErrTokenExpired") \/ Is(err, "ErrMissingToken")
    THEN [Status |-> 401, Code |-> "unauthorized"]
    ELSE IF Is(err, "ErrForbidden") \/ Is(err, "ErrAccessDenied")
    THEN [Status |-> 403, Code |-> "forbidden"]
    ELSE IF Is(err, "ErrNotFound") \/ Is(err, "ErrSessionNotFound")
    THEN [Status |-> 404, Code |-> "not_found"]
    ELSE IF Is(err, "ErrInvalidSessionID") \/ Is(err, "ErrInvalidPagination")
    THEN [Status |-> 400, Code |-> "bad_request"]
    ELSE IF Is(err, "ErrServiceUnavailable")
    THEN [Status |-> 503, Code |-> "service_unavailable"]
    ELSE IF Is(err, "ErrTimeout")
    THEN [Status |-> 504, Code |-> "timeout"]
    ELSE [Status |-> 500, Code |-> "internal_server_error"]

----------------------------------------------------------------------------
(* Requests *)

NoGot == [found |-> FALSE, info |-> NoInfo]

(* the method of the request SupabaseClient.Get builds *)
MethodGet == "GET"

IdleReq ==
    [ pc |-> "idle",
      sessionID |-> << >>, shareToken |-> << >>, token |-> << >>,
      userID |-> "", tokenType |-> "",
      got |-> NoGot, claims |-> NoClaims,
      limit |-> 0, offset |-> 0,
      status |-> 0, code |-> "", body |-> NoBody,
      \* history of what the request did
      readHeader |-> FALSE, header |-> << >>, nVerify |-> 0, nJwtCache |-> 0, nShareCache |-> 0,
      nShare |-> 0, nSession |-> 0, nFind |-> 0,
      grant |-> "", sessRes |-> "", owner |-> "", findRes |-> "",
      live |-> FALSE, fresh |-> FALSE, via |-> "", genuine |-> FALSE, ran |-> FALSE,
      overtaken |-> FALSE,
      \* the raw query GetHistory read, and the PaginationParams GetAuditLogs got
      limitQ |-> Absent, offsetQ |-> Absent,
      paged |-> FALSE, page |-> [Limit |-> 0, Offset |-> 0],
      \* the error a direct caller handed to ToAPIError
      converted |-> FALSE, errIn |-> << >>,
      \* a direct call of ValidateToken: its result, when, and the secret then
      verdict |-> "", at |-> 0, secret |-> "",
      \* the HTTP methods of the backend calls made for the request
      methods |-> {},
      \* the audit list query sent, and the reply FindBySessionID accepted
      sent |-> NoQuery,
      reply |-> [ failed |-> FALSE, deadline |-> FALSE, status |-> 0, body |-> NoData,
                  contentRange |-> << >> ],
      \* the last backend call of the request ran into its deadline
      timedOut |-> FALSE,
      \* response bodies written for the request
      nResp |-> 0 ]

(* c.JSON(status, ...) followed by return: the response is written *)
Respond(q, status, code) ==
    [q EXCEPT !.pc = "done", !.status = status, !.code = code, !.nResp = @ + 1]

(* history: the entry under key was stored by a Set for exactly these     *)
(* credentials, within ttl, and not invalidated since                      *)
Live(key, ttl, tok, sid) ==
    /\ key \in DOMAIN setAt
    /\ now <= setAt[key].at + ttl
    /\ setAt[key].token = tok
    /\ setAt[key].session = sid

(* history: the token's own exp, if it has one, is still ahead *)
Fresh(tok, t) == JwtTable[tok].exp = NilTime \/ t < JwtTable[tok].exp

(* the token is what the configured verification material vouches for *)
Genuine(tok, t) ==
    /\ IsJwt(tok)
    /\ JwtTable[tok].alg = "HMAC"
    /\ JwtTable[tok].key = HmacBlob
    /\ JwtTable[tok].exp = NilTime \/ t < JwtTable[tok].exp
    /\ JwtTable[tok].iat = NilTime \/ JwtTable[tok].iat <= t

Init ==
    /\ now = 0
    /\ cache = EmptyCache
    /\ req = [r \in Requests |-> IdleReq]
    /\ shares = { <<Str(STK), Str(S1)>> }
    /\ jwtSecret = HmacBlob
    /\ verifyKey = "nil"
    /\ setAt = EmptyCache

(* mutation: a request with a bearer header takes the bearer path even   *)
(* when it carries a share token                                         *)
Auth_HeaderFirst(r, sessionIDs, authHeaders) ==
    /\ req[r].pc = "idle"
    /\ r = "w2" => req["w1"].pc # "idle"
    /\ \E sid \in sessionIDs, st \in ShareTokens, h \in authHeaders :
         LET q0 == [IdleReq EXCEPT !.sessionID = sid, !.shareToken = st]
             q1 == [q0 EXCEPT !.readHeader = TRUE, !.header = h]
             token == extractBearerToken(h)
         IN  req' = [req EXCEPT ![r] =
                 IF sid = << >> THEN Respond(q0, 401, "unauthorized")
                 ELSE IF token # << >> THEN [q1 EXCEPT !.pc = "jwtGet", !.token = token]
                 ELSE IF st # << >> THEN [q0 EXCEPT !.pc = "shareGet"]
                 ELSE Respond(q1, 401, "unauthorized")]
    /\ UNCHANGED <<now, cache, shares, jwtSecret, verifyKey, setAt>>

(* mutation: the 401 for a missing header is not followed by Abort and   *)
(* return                                                                 *)
Auth_NoAbort(r, sessionIDs, authHeaders) ==
    /\ req[r].pc = "idle"
    /\ r = "w2" => req["w1"].pc # "idle"    \* w1 names the request that arrives first
    /\ \E sid \in sessionIDs, st \in ShareTokens, h \in authHeaders :
         LET q0 == [IdleReq EXCEPT !.sessionID = sid, !.shareToken = st]
             q1 == [q0 EXCEPT !.readHeader = TRUE, !.header = h]
             token == extractBearerToken(h)
         IN  req' = [req EXCEPT ![r] =
                 IF sid = << >> THEN Respond(q0, 401, "unauthorized")
                 ELSE IF st # << >> THEN [q0 EXCEPT !.pc = "shareGet"]
                 ELSE IF h = << >>
                 THEN [Respond(q1, 401, "unauthorized") EXCEPT !.pc = "handler"]
                 ELSE IF token = << >> THEN Respond(q1, 401, "unauthorized")
                 ELSE [q1 EXCEPT !.pc = "jwtGet", !.token = token]]
    /\ UNCHANGED <<now, cache, shares, jwtSecret, verifyKey, setAt>>

(* middleware.Auth, up to the first use of the cache *)
Auth(r, sessionIDs, authHeaders) ==
    /\ req[r].pc = "idle"
    /\ r = "w2" => req["w1"].pc # "idle"    \* w1 names the request that arrives first
    /\ \E sid \in sessionIDs, st \in ShareTokens, h \in authHeaders :
         LET q0 == [IdleReq EXCEPT !.sessionID = sid, !.shareToken = st]
             q1 == [q0 EXCEPT !.readHeader = TRUE, !.header = h]
             token == extractBearerToken(h)
         IN  req' = [req EXCEPT ![r] =
                 IF sid = << >> THEN Respond(q0, 401, "unauthorized")
                 ELSE IF st # << >> THEN [q0 EXCEPT !.pc = "shareGet"]
                 ELSE IF h = << >> THEN Respond(q1, 401, "unauthorized")
                 ELSE IF token = << >> THEN Respond(q1, 401, "unauthorized")
                 ELSE [q1 EXCEPT !.pc = "jwtGet", !.token = token]]
    /\ UNCHANGED <<now, cache, shares, jwtSecret, verifyKey, setAt>>

(* history kept beside CacheSet: when, and for which credentials *)
NoteSet(h, key, tok, sid, t) ==
    [k \in DOMAIN h \cup {key} |->
        IF k = key THEN [at |-> t, token |-> tok, session |-> sid] ELSE h[k]]

(* TokenCache.GetJWT, first part: the go-cache lookup *)
JwtGet(r) ==
    /\ req[r].pc = "jwtGet"
    /\ LET q   == req[r]
           tok == Str(q.token)
           key == getJWTKey(tok)
           g   == CacheGet(cache, key, now)
       IN  req' = [req EXCEPT ![r] =
                [q EXCEPT !.got = g,
                          !.nJwtCache = @ + 1,
                          !.live = Live(key, JwtTTL, tok, ""),
                          !.fresh = Fresh(tok, now),
                          !.pc = IF g.found THEN "jwtCheck" ELSE "verify"]]
    /\ UNCHANGED <<now, cache, shares, jwtSecret, verifyKey, setAt>>

(* mutation: an entry is still served at its ExpiresAt *)
JwtCheck_NotAfter(r) ==
    /\ req[r].pc = "jwtCheck"
    /\ LET q == [req[r] EXCEPT !.fresh = Fresh(Str(req[r].token), now)]
       IN  req' = [req EXCEPT ![r] =
                IF now <= q.got.info.ExpiresAt
                THEN [q EXCEPT !.userID = q.got.info.UserID,
                               !.via = "cache",
                               !.tokenType = "jwt",
                               !.pc = "handler"]
                ELSE [q EXCEPT !.pc = "jwtDelete"]]
    /\ UNCHANGED <<now, cache, shares, jwtSecret, verifyKey, setAt>>

(* TokenCache.GetJWT, second part: time.Now().Before(info.ExpiresAt) *)
JwtCheck(r) ==
    /\ req[r].pc = "jwtCheck"
    /\ LET q == [req[r] EXCEPT !.fresh = Fresh(Str(req[r].token), now)]
       IN  req' = [req EXCEPT ![r] =
                IF now < q.got.info.ExpiresAt
                THEN [q EXCEPT !.userID = q.got.info.UserID,
                               !.via = "cache",
                               !.tokenType = "jwt",
                               !.pc = "handler"]
                ELSE [q EXCEPT !.pc = "jwtDelete"]]
    /\ UNCHANGED <<now, cache, shares, jwtSecret, verifyKey, setAt>>

(* TokenCache.GetJWT, third part: tc.cache.Delete(key), then the miss *)
JwtDelete(r) ==
    /\ req[r].pc = "jwtDelete"
    /\ cache' = CacheDelete(cache, getJWTKey(Str(req[r].token)))
    /\ req' = [req EXCEPT ![r] = [@ EXCEPT !.got = NoGot, !.pc = "verify"]]
    /\ UNCHANGED <<now, shares, jwtSecret, verifyKey, setAt>>

(* validateJWTToken after a miss: validator.ValidateToken, and building   *)
(* the CachedTokenInfo, which dereferences claims.ExpiresAt               *)
JwtVerify(r) ==
    /\ req[r].pc = "verify"
    /\ LET q   == [req[r] EXCEPT !.nVerify = @ + 1,
                                 !.genuine = Genuine(Str(req[r].token), now)]
           v   == ValidateToken(Str(q.token), verifyKey, jwtSecret, now)
       IN  req' = [req EXCEPT ![r] =
                IF v.err THEN Respond(q, 401, "unauthorized")
                ELSE IF v.claims.ExpiresAt = NilTime THEN Respond(q, 500, "panic")
                ELSE [q EXCEPT !.claims = v.claims, !.pc = "jwtSet"]]
    /\ UNCHANGED <<now, cache, shares, jwtSecret, verifyKey, setAt>>

(* mutation: the entry's ExpiresAt is stamped at the write, as on the    *)
(* share path                                                             *)
JwtSet_Stamped(r) ==
    /\ req[r].pc = "jwtSet"
    /\ LET q   == req[r]
           tok == Str(q.token)
           key == getJWTKey(tok)
           info == [UserID |-> q.claims.UserID, SessionID |-> "",
                    ExpiresAt |-> now + ShareDefaultExpiry]
       IN  /\ cache' = CacheSet(cache, key, info, JwtTTL, now)
           /\ setAt' = NoteSet(setAt, key, tok, "", now)
           /\ req' = [req EXCEPT ![r] =
                  [q EXCEPT !.nJwtCache = @ + 1,
                            !.userID = q.claims.UserID,
                            !.via = "verified",
                            !.tokenType = "jwt",
                            !.pc = "handler"]]
    /\ UNCHANGED <<now, shares, jwtSecret, verifyKey>>

(* validateJWTToken: tokenCache.SetJWT, c.Set(AuthUserIDKey), c.Next() *)
JwtSet(r) ==
    /\ req[r].pc = "jwtSet"
    /\ LET q   == req[r]
           tok == Str(q.token)
           key == getJWTKey(tok)
           info == [UserID |-> q.claims.UserID, SessionID |-> "",
                    ExpiresAt |-> q.claims.ExpiresAt]
       IN  /\ cache' = CacheSet(cache, key, info, JwtTTL, now)
           /\ setAt' = NoteSet(setAt, key, tok, "", now)
           /\ req' = [req EXCEPT ![r] =
                  [q EXCEPT !.nJwtCache = @ + 1,
                            !.userID = q.claims.UserID,
                            !.via = "verified",
                            !.tokenType = "jwt",
                            !.pc = "handler"]]
    /\ UNCHANGED <<now, shares, jwtSecret, verifyKey>>

(* validateShareToken: TokenCache.GetShareToken *)
ShareGet(r) ==
    /\ req[r].pc = "shareGet"
    /\ LET q   == req[r]
           key == getShareTokenKey(Str(q.shareToken), Str(q.sessionID))
           g   == CacheGet(cache, key, now)
           q1  == [q EXCEPT !.got = g,
                            !.nShareCache = @ + 1,
                            !.live = Live(key, ShareTTL, Str(q.shareToken), Str(q.sessionID))]
       IN  req' = [req EXCEPT ![r] =
                IF g.found
                THEN [q1 EXCEPT !.via = "cache", !.tokenType = "share", !.pc = "handler"]
                ELSE [q1 EXCEPT !.pc = "shareValidate"]]
    /\ UNCHANGED <<now, cache, shares, jwtSecret, verifyKey, setAt>>

(* mutation: a failed call counts as a grant *)
RepoValidateShareToken_FailOpen(outcome, rows) ==
    IF outcome # "ok" THEN [valid |-> TRUE, err |-> FALSE]
    ELSE IF Len(rows) = 0 THEN [valid |-> FALSE, err |-> FALSE]
    ELSE [valid |-> TRUE, err |-> FALSE]

(* mutation: a row whose expires_at is set does not count *)
RepoValidateShareToken_ChecksExpiry(outcome, rows) ==
    IF outcome # "ok" THEN [valid |-> FALSE, err |-> TRUE]
    ELSE IF Len(rows) = 0 THEN [valid |-> FALSE, err |-> FALSE]
    ELSE [valid |-> rows[1].expires_at = "", err |-> FALSE]

(* auditRepository.ValidateShareToken over the reply of GET /session_shares *)
RepoValidateShareToken(outcome, rows) ==
    IF outcome # "ok" THEN [valid |-> FALSE, err |-> TRUE]
    ELSE IF Len(rows) = 0 THEN [valid |-> FALSE, err |-> FALSE]
    ELSE [valid |-> TRUE, err |-> FALSE]

(* ShareToken.ExpiresAt of the model's grant: a timestamp long past *)
GrantExpiresAt == "2000-01-01T00:00:00Z"

(* session_shares?token=eq.<t>&session_id=eq.<s>&limit=1 *)
ShareRows(tok, sid) ==
    IF <<tok, sid>> \in shares
    THEN << [token |-> tok, session_id |-> sid, expires_at |-> GrantExpiresAt] >>
    ELSE << >>

(* decoded replies of GET /session_shares: no row, or one row whose       *)
(* expires_at is omitted, past or far ahead                               *)
ShareReplies ==
    { << >> } \cup
    { << [token |-> Str(STK), session_id |-> Str(S1), expires_at |-> e] >> :
          e \in {"", GrantExpiresAt, "2999-01-01T00:00:00Z"} }

(* mutation: a share grant is used up by its validation *)
ShareValidate_Consumes(r) ==
    /\ req[r].pc = "shareValidate"
    /\ \E o \in Outcomes :
         LET rows == ShareRows(Str(req[r].shareToken), Str(req[r].sessionID))
             q   == [req[r] EXCEPT !.nShare = @ + 1,
                                   !.methods = @ \cup {MethodGet},
                                   !.grant = IF o # "ok" THEN "error"
                                             ELSE IF rows = << >> THEN "false" ELSE "true"]
             res == RepoValidateShareToken(o, rows)
         IN  /\ req' = [req EXCEPT ![r] =
                  IF res.err THEN Respond(q, 403, "forbidden")
                  ELSE IF ~res.valid THEN Respond(q, 403, "forbidden")
                  ELSE [q EXCEPT !.pc = "shareSet"]]
             /\ shares' = IF ~res.err /\ res.valid
                          THEN shares \ { <<Str(req[r].shareToken), Str(req[r].sessionID)>> }
                          ELSE shares
    /\ UNCHANGED <<now, cache, jwtSecret, verifyKey, setAt>>

(* validateShareToken after a miss: repo.ValidateShareToken *)
ShareValidate(r) ==
    /\ req[r].pc = "shareValidate"
    /\ \E o \in Outcomes :
         LET rows == ShareRows(Str(req[r].shareToken), Str(req[r].sessionID))
             q   == [req[r] EXCEPT !.nShare = @ + 1,
                                   !.methods = @ \cup {MethodGet},
                                   !.grant = IF o # "ok" THEN "error"
                                             ELSE IF rows = << >> THEN "false" ELSE "true"]
             res == RepoValidateShareToken(o, rows)
         IN  req' = [req EXCEPT ![r] =
                  IF res.err THEN Respond(q, 403, "forbidden")
                  ELSE IF ~res.valid THEN Respond(q, 403, "forbidden")
                  ELSE [q EXCEPT !.pc = "shareSet"]]
    /\ UNCHANGED <<now, cache, shares, jwtSecret, verifyKey, setAt>>

(* validateShareToken: tokenCache.SetShareToken, then c.Next() *)
ShareSet(r) ==
    /\ req[r].pc = "shareSet"
    /\ LET q   == req[r]
           tok == Str(q.shareToken)
           sid == Str(q.sessionID)
           key == getShareTokenKey(tok, sid)
           info == [UserID |-> "", SessionID |-> sid,
                    ExpiresAt |-> now + ShareDefaultExpiry]
       IN  /\ cache' = CacheSet(cache, key, info, ShareTTL, now)
           /\ setAt' = NoteSet(setAt, key, tok, sid, now)
           /\ req' = [req EXCEPT ![r] =
                  [q EXCEPT !.nShareCache = @ + 1,
                            !.via = "grant",
                            !.tokenType = "share",
                            !.pc = "handler"]]
    /\ UNCHANGED <<now, shares, jwtSecret, verifyKey>>

(* mutation: negative limit and offset are let through to the service *)
ParseRequest_SignIgnored(sid, limitQ, offsetQ) ==
    LET l == Atoi(DefaultQuery(limitQ, <<"5","0">>))
        o == Atoi(DefaultQuery(offsetQ, <<"0">>))
    IN  IF sid = << >> \/ ~isValidUUID(sid) THEN [ok |-> FALSE, Limit |-> 0, Offset |-> 0]
        ELSE IF l.err \/ o.err THEN [ok |-> FALSE, Limit |-> 0, Offset |-> 0]
        ELSE [ok |-> TRUE, Limit |-> l.val, Offset |-> o.val]

(* handlers.GetHistory up to the service call: path and query validation *)
ParseRequest(sid, limitQ, offsetQ) ==
    LET l == Atoi(DefaultQuery(limitQ, <<"5","0">>))
        o == Atoi(DefaultQuery(offsetQ, <<"0">>))
    IN  IF sid = << >> \/ ~isValidUUID(sid) THEN [ok |-> FALSE, Limit |-> 0, Offset |-> 0]
        ELSE IF l.err \/ l.val < 0 THEN [ok |-> FALSE, Limit |-> 0, Offset |-> 0]
        ELSE IF o.err \/ o.val < 0 THEN [ok |-> FALSE, Limit |-> 0, Offset |-> 0]
        ELSE [ok |-> TRUE, Limit |-> l.val, Offset |-> o.val]

(* mutation: GetAuditLogs validates ownership on both paths *)
Handler_AlwaysOwnership(r, limitQueries, offsetQueries) ==
    /\ req[r].pc = "handler"
    /\ \E limitQ \in limitQueries, offsetQ \in offsetQueries :
         LET q  == [req[r] EXCEPT !.ran = TRUE, !.limitQ = limitQ, !.offsetQ = offsetQ]
             p  == ParseRequest(q.sessionID, limitQ, offsetQ)
             pg == Validate(p)
         IN  req' = [req EXCEPT ![r] =
                  IF ~p.ok THEN Respond(q, 400, "bad_request")
                  ELSE [q EXCEPT !.paged = TRUE,
                                 !.page = [Limit |-> p.Limit, Offset |-> p.Offset],
                                 !.limit = pg.Limit,
                                 !.offset = pg.Offset,
                                 !.pc = "getSession"]]
    /\ UNCHANGED <<now, cache, shares, jwtSecret, verifyKey, setAt>>

(* handlers.GetHistory, then auditService.GetAuditLogs up to its first    *)
(* repository call: pagination.Validate and the isShareToken branch       *)
Handler(r, limitQueries, offsetQueries) ==
    /\ req[r].pc = "handler"
    /\ \E limitQ \in limitQueries, offsetQ \in offsetQueries :
         LET q  == [req[r] EXCEPT !.ran = TRUE, !.limitQ = limitQ, !.offsetQ = offsetQ]
             p  == ParseRequest(q.sessionID, limitQ, offsetQ)
             pg == Validate(p)
             isShareToken == q.tokenType = "share"
         IN  req' = [req EXCEPT ![r] =
                  IF ~p.ok THEN Respond(q, 400, "bad_request")
                  ELSE [q EXCEPT !.paged = TRUE,
                                 !.page = [Limit |-> p.Limit, Offset |-> p.Offset],
                                 !.limit = pg.Limit,
                                 !.offset = pg.Offset,
                                 !.pc = IF isShareToken THEN "find" ELSE "getSession"]]
    /\ UNCHANGED <<now, cache, shares, jwtSecret, verifyKey, setAt>>

(* mutation: an empty sessions array is reported as a backend failure *)
RepoGetSession_EmptyFails(outcome, rows) ==
    IF outcome # "ok" \/ Len(rows) = 0
    THEN [err |-> Errorf(BackendError(outcome)), user_id |-> ""]
    ELSE [err |-> << >>, user_id |-> rows[1].user_id]

(* auditRepository.GetSession over the reply of GET /sessions *)
RepoGetSession(outcome, rows) ==
    IF outcome # "ok" THEN [err |-> Errorf(BackendError(outcome)), user_id |-> ""]
    ELSE IF Len(rows) = 0 THEN [err |-> <<"ErrSessionNotFound">>, user_id |-> ""]
    ELSE [err |-> << >>, user_id |-> rows[1].user_id]

(* mutation: the owner is not compared with the caller *)
validateOwnership_NoCompare(session, userID) ==
    IF Is(session.err, "ErrSessionNotFound") THEN <<"ErrNotFound">>
    ELSE IF session.err # << >> THEN Errorf(session.err)
    ELSE << >>

(* auditService.validateOwnership: the error it returns *)
validateOwnership(session, userID) ==
    IF Is(session.err, "ErrSessionNotFound") THEN <<"ErrNotFound">>
    ELSE IF session.err # << >> THEN Errorf(session.err)
    ELSE IF session.user_id # userID THEN <<"ErrForbidden">>
    ELSE << >>

(* mutation: a failed session fetch is tried once more *)
GetSession_Retry(r, outcomes) ==
    /\ req[r].pc = "getSession"
    /\ \E o \in outcomes :
         LET rows == SessionRows(Str(req[r].sessionID))
             session == RepoGetSession(o, rows)
             err == validateOwnership(session, req[r].userID)
             q   == [req[r] EXCEPT !.nSession = @ + 1,
                                   !.timedOut = (o = "deadline"),
                                   !.methods = @ \cup {MethodGet},
                                   !.sessRes = IF o # "ok" THEN "error"
                                               ELSE IF rows = << >> THEN "notfound" ELSE "found",
                                   !.owner = IF o = "ok" /\ rows # << >>
                                             THEN rows[1].user_id ELSE ""]
         IN  req' = [req EXCEPT ![r] =
                  IF o # "ok" /\ q.nSession < 2 THEN q
                  ELSE IF err # << >>
                  THEN Respond(q, ToAPIError(err).Status, ToAPIError(err).Code)
                  ELSE [q EXCEPT !.pc = "find"]]
    /\ UNCHANGED <<now, cache, shares, jwtSecret, verifyKey, setAt>>

(* GetAuditLogs on the bearer path: validateOwnership, one backend call *)
GetSession(r, outcomes) ==
    /\ req[r].pc = "getSession"
    /\ \E o \in outcomes :
         LET rows == SessionRows(Str(req[r].sessionID))
             session == RepoGetSession(o, rows)
             err == validateOwnership(session, req[r].userID)
             q   == [req[r] EXCEPT !.nSession = @ + 1,
                                   !.timedOut = (o = "deadline"),
                                   !.methods = @ \cup {MethodGet},
                                   !.sessRes = IF o # "ok" THEN "error"
                                               ELSE IF rows = << >> THEN "notfound" ELSE "found",
                                   !.owner = IF o = "ok" /\ rows # << >>
                                             THEN rows[1].user_id ELSE ""]
         IN  req' = [req EXCEPT ![r] =
                  IF err # << >>
                  THEN Respond(q, ToAPIError(err).Status, ToAPIError(err).Code)
                  ELSE [q EXCEPT !.pc = "find"]]
    /\ UNCHANGED <<now, cache, shares, jwtSecret, verifyKey, setAt>>

(* strconv.Itoa *)
RECURSIVE ItoaDigits(_)
ItoaDigits(n) ==
    IF n < 10 THEN <<Digits[n + 1]>>
    ELSE ItoaDigits(n \div 10) \o <<Digits[(n % 10) + 1]>>

Itoa(n) == IF n < 0 THEN <<"-">> \o ItoaDigits(0 - n) ELSE ItoaDigits(n)

(* FindBySessionID: the query parameters of GET /audit_logs *)
FindQuery(sessionID, limit, offset) ==
    [ session_id |-> <<"e", "q", ".">> \o sessionID,
      order      |-> "timestamp.desc",
      limit      |-> Itoa(limit),
      offset     |-> Itoa(offset),
      select     |-> "*" ]

Reverse(rows) == [i \in 1..Len(rows) |-> rows[Len(rows) + 1 - i]]

(* the backend answering GET /audit_logs by its query: the rows of the    *)
(* session in the order asked for, the window limit/offset                *)
Served(query) ==
    LET sid  == Str(SubSeq(query.session_id, 4, Len(query.session_id)))
        rows == IF query.order = "timestamp.desc"
                THEN AuditRows(sid) ELSE Reverse(AuditRows(sid))
    IN  Page(rows, Atoi(query.limit).val, Atoi(query.offset).val)

(* the Content-Range header of that answer: <start>-<end>/<total>, or     *)
(* */<total> when the window is empty                                     *)
ContentRange(query) ==
    LET sid   == Str(SubSeq(query.session_id, 4, Len(query.session_id)))
        n     == Len(Served(query))
        o     == Atoi(query.offset).val
        total == Itoa(Len(AuditRows(sid)))
    IN  IF n = 0 THEN <<"*", "/">> \o total
        ELSE Itoa(o) \o <<"-">> \o Itoa(o + n - 1) \o <<"/">> \o total

(* what the backend may do with a GET /audit_logs: answer; fail in        *)
(* transport; send a body that does not decode; answer with status 500;   *)
(* send the body null; leave Content-Range out, without a total, or       *)
(* unreadable; send one row more than asked for                           *)
AuditBehaviours ==
    { "ok", "transport", "decode", "status", "null",
      "noRange", "noTotal", "junkRange", "overLimit", "deadline" }

BackendReply(behaviour, query) ==
    LET rows   == Served(query)
        honest == [ failed |-> FALSE, deadline |-> FALSE, status |-> 200,
                    body |-> [json |-> "array", rows |-> rows],
                    contentRange |-> ContentRange(query) ]
        o      == Atoi(query.offset).val
    IN  CASE behaviour = "ok" -> honest
          [] behaviour = "transport" -> [honest EXCEPT !.failed = TRUE]
          [] behaviour = "deadline" ->
                 [honest EXCEPT !.failed = TRUE, !.deadline = TRUE]
          [] behaviour = "decode" ->
                 [honest EXCEPT !.body = [json |-> "object", rows |-> << >>]]
          [] behaviour = "status" ->
                 [honest EXCEPT !.status = 500,
                                !.body = [json |-> "object", rows |-> << >>],
                                !.contentRange = << >>]
          [] behaviour = "null" ->
                 [honest EXCEPT !.body = [json |-> "null", rows |-> << >>],
                                !.contentRange = <<"*", "/", "0">>]
          [] behaviour = "noRange" -> [honest EXCEPT !.contentRange = << >>]
          [] behaviour = "noTotal" ->
                 [honest EXCEPT !.contentRange =
                      Itoa(o) \o <<"-">> \o Itoa(o + Len(rows)) \o <<"/", "*">>]
          [] behaviour = "junkRange" ->
                 [honest EXCEPT !.contentRange = <<"i", "t", "e", "m", "s">>]
          [] behaviour = "overLimit" ->
                 [honest EXCEPT !.body.rows =
                      Served([query EXCEPT !.limit = Itoa(Atoi(query.limit).val + 1)])]

(* fmt.Sscanf with the verb %d: an optional sign and decimal digits *)
RECURSIVE LeadingDigits(_)
LeadingDigits(s) ==
    IF s = << >> \/ ~IsDigit(Head(s)) THEN 0 ELSE 1 + LeadingDigits(Tail(s))

ScanInt(s) ==
    LET signed == s # << >> /\ Head(s) \in {"+", "-"}
        body   == IF signed THEN Tail(s) ELSE s
        n      == LeadingDigits(body)
        v      == DigitsVal(SubSeq(body, 1, n))
    IN  [ ok   |-> n > 0,
          val  |-> IF signed /\ Head(s) = "-" THEN 0 - v ELSE v,
          rest |-> SubSeq(body, n + 1, Len(body)) ]

(* mutation: the total is read from the front of the header *)
Sscanf_First(contentRange) ==
    IF ScanInt(contentRange).ok THEN ScanInt(contentRange).val ELSE 0

(* fmt.Sscanf(contentRange, "%d-%d/%d", &rangeStart, &rangeEnd, &count):  *)
(* the value left in count, which starts as 0; the error is discarded     *)
Sscanf(contentRange) ==
    LET a == ScanInt(contentRange)
    IN  IF ~a.ok \/ a.rest = << >> \/ Head(a.rest) # "-" THEN 0
        ELSE LET b == ScanInt(Tail(a.rest))
             IN  IF ~b.ok \/ b.rest = << >> \/ Head(b.rest) # "/" THEN 0
                 ELSE LET c == ScanInt(Tail(b.rest))
                      IN  IF c.ok THEN c.val ELSE 0

(* SupabaseClient.Get over the reply: body, count, error *)
Get(reply) ==
    IF reply.failed
    THEN [data |-> NoData, count |-> 0,
          err |-> BackendError(IF reply.deadline THEN "deadline" ELSE "transport")]
    ELSE IF reply.status >= 400
    THEN [data |-> NoData, count |-> reply.status, err |-> <<"SupabaseError">>]
    ELSE [data |-> reply.body,
          count |-> IF reply.contentRange # << >> THEN Sscanf(reply.contentRange) ELSE 0,
          err |-> << >>]

(* a Go slice: nil or not, and its elements *)
NilSlice == [nil |-> TRUE, elems |-> << >>]

(* json.Unmarshal(data, &entries) into a nil []AuditEntry: an array gives *)
(* a slice that is not nil, null leaves the slice nil                     *)
Unmarshal(data) ==
    CASE data.json = "array" -> [err |-> << >>, entries |-> [nil |-> FALSE, elems |-> data.rows]]
      [] data.json = "null"  -> [err |-> << >>, entries |-> NilSlice]
      [] OTHER -> [err |-> <<"json.UnmarshalTypeError">>, entries |-> NilSlice]

(* mutation: the count Get returned is passed on with the error *)
RepoFindBySessionID_CountKept(behaviour, sessionID, limit, offset) ==
    LET query == FindQuery(sessionID, limit, offset)
        reply == BackendReply(behaviour, query)
        got   == Get(reply)
        u     == Unmarshal(got.data)
    IN  IF got.err # << >>
        THEN [err |-> Errorf(got.err), entries |-> NilSlice, total |-> got.count,
              sent |-> query, reply |-> reply]
        ELSE IF u.err # << >>
        THEN [err |-> Errorf(u.err), entries |-> NilSlice, total |-> 0,
              sent |-> query, reply |-> reply]
        ELSE [err |-> << >>, entries |-> u.entries, total |-> got.count,
              sent |-> query, reply |-> reply]

(* mutation: the entries are returned oldest first *)
RepoFindBySessionID_Reversed(behaviour, sessionID, limit, offset) ==
    LET query == FindQuery(sessionID, limit, offset)
        reply == BackendReply(behaviour, query)
        got   == Get(reply)
        u     == Unmarshal(got.data)
    IN  IF got.err # << >> \/ u.err # << >>
        THEN [err |-> Errorf(<<"url.Error">>), entries |-> NilSlice, total |-> 0,
              sent |-> query, reply |-> reply]
        ELSE [err |-> << >>,
              entries |-> [u.entries EXCEPT !.elems = Reverse(@)],
              total |-> got.count, sent |-> query, reply |-> reply]

(* auditRepository.FindBySessionID: the query it sends, the reply of the  *)
(* backend, and what it returns                                           *)
RepoFindBySessionID(behaviour, sessionID, limit, offset) ==
    LET query == FindQuery(sessionID, limit, offset)
        reply == BackendReply(behaviour, query)
        got   == Get(reply)
        u     == Unmarshal(got.data)
    IN  IF got.err # << >>
        THEN [err |-> Errorf(got.err), entries |-> NilSlice, total |-> 0,
              sent |-> query, reply |-> reply]
        ELSE IF u.err # << >>
        THEN [err |-> Errorf(u.err), entries |-> NilSlice, total |-> 0,
              sent |-> query, reply |-> reply]
        ELSE [err |-> << >>, entries |-> u.entries, total |-> got.count,
              sent |-> query, reply |-> reply]

(* mutation: a failed FindBySessionID is taken for an empty result *)
findError_Swallowed(err) == << >>

(* GetAuditLogs: the error returned for a failed FindBySessionID *)
findError(err) ==
    IF Is(err, "ErrSessionNotFound") THEN <<"ErrNotFound">>
    ELSE IF err # << >> THEN Errorf(err) ELSE << >>

(* GetAuditLogs: FindBySessionID and the response; GetHistory writes it *)
Find(r, behaviours) ==
    /\ req[r].pc = "find"
    /\ \E behaviour \in behaviours :
       \E res \in {RepoFindBySessionID(behaviour, req[r].sessionID,
                                       req[r].limit, req[r].offset)} :
         LET q   == [req[r] EXCEPT !.nFind = @ + 1,
                                   !.methods = @ \cup {MethodGet},
                                   !.timedOut = (behaviour = "deadline"),
                                   !.findRes = IF res.err # << >> THEN "error" ELSE "ok",
                                   !.sent = res.sent]
             err == findError(res.err)
         IN  req' = [req EXCEPT ![r] =
                  IF err # << >>
                  THEN Respond(q, ToAPIError(err).Status, ToAPIError(err).Code)
                  ELSE Respond([q EXCEPT !.reply = res.reply,
                                         !.body = [totalCount |-> res.total,
                                                   items |-> res.entries.elems,
                                                   itemsNull |-> res.entries.nil]],
                               200, "")]
    /\ UNCHANGED <<now, cache, shares, jwtSecret, verifyKey, setAt>>

(* the response has been sent; the worker takes the next request *)
Finish(r) ==
    /\ req[r].pc = "done"
    /\ req' = [req EXCEPT ![r] = IdleReq]
    /\ UNCHANGED <<now, cache, shares, jwtSecret, verifyKey, setAt>>

(* time passes *)
Tick ==
    /\ now < MaxTime
    /\ now' = now + 1
    /\ UNCHANGED <<cache, req, shares, jwtSecret, verifyKey, setAt>>

(* the go-cache janitor started by cache.New(NoExpiration, cleanupInterval) *)
Janitor ==
    /\ cache' = CacheDeleteExpired(cache, now)
    /\ UNCHANGED <<now, req, shares, jwtSecret, verifyKey, setAt>>

(* TokenCache.InvalidateJWT; history: a request that has verified the     *)
(* token and not yet stored it has been overtaken by the invalidation     *)
InvalidateJWT(token) ==
    /\ cache' = CacheDelete(cache, getJWTKey(token))
    /\ setAt' = CacheDelete(setAt, getJWTKey(token))
    /\ req' = [r \in Requests |->
                 IF req[r].pc = "jwtSet" /\ Str(req[r].token) = token
                 THEN [req[r] EXCEPT !.overtaken = TRUE]
                 ELSE req[r]]
    /\ UNCHANGED <<now, shares, jwtSecret, verifyKey>>

(* TokenCache.InvalidateShareToken *)
InvalidateShareToken(token, sessionID) ==
    /\ cache' = CacheDelete(cache, getShareTokenKey(token, sessionID))
    /\ setAt' = CacheDelete(setAt, getShareTokenKey(token, sessionID))
    /\ UNCHANGED <<now, req, shares, jwtSecret, verifyKey>>

(* another system revokes the share of session S1 *)
ShareRevoke ==
    /\ <<Str(STK), Str(S1)>> \in shares
    /\ shares' = shares \ { <<Str(STK), Str(S1)>> }
    /\ UNCHANGED <<now, cache, req, jwtSecret, verifyKey, setAt>>

(* a direct caller of TokenCache.SetShareToken with an info of its own *)
CallSetShareToken(pairs) ==
    /\ \E p \in pairs, e \in {0, now + ShareDefaultExpiry} :
         LET tok == Str(p[1])
             sid == Str(p[2])
             key == getShareTokenKey(tok, sid)
             info == [UserID |-> "", SessionID |-> sid, ExpiresAt |-> e]
         IN  /\ cache' = CacheSet(cache, key, info, ShareTTL, now)
             /\ setAt' = NoteSet(setAt, key, tok, sid, now)
    /\ UNCHANGED <<now, req, shares, jwtSecret, verifyKey>>

(* a direct caller of TokenCache.GetShareToken; req[r] keeps what it got *)
CallGetShareToken(r, pairs) ==
    /\ \E p \in pairs :
         LET tok == Str(p[1])
             sid == Str(p[2])
             key == getShareTokenKey(tok, sid)
         IN  req' = [req EXCEPT ![r] =
                 [IdleReq EXCEPT !.shareToken = p[1],
                                 !.sessionID = p[2],
                                 !.got = CacheGet(cache, key, now),
                                 !.nShareCache = 1,
                                 !.live = Live(key, ShareTTL, tok, sid)]]
    /\ UNCHANGED <<now, cache, shares, jwtSecret, verifyKey, setAt>>

Other(r) == CHOOSE o \in Requests : o # r

InFlight(r) == req[r].pc \notin {"idle", "done"}

(* the steps of a request after Auth and before the handler *)
AuthSteps(r) ==
    \/ JwtGet(r) \/ JwtCheck(r) \/ JwtDelete(r) \/ JwtVerify(r) \/ JwtSet(r)
    \/ ShareGet(r) \/ ShareValidate(r) \/ ShareSet(r)

(* Two overlapping requests for session S1 (or with no session id),      *)
(* with every credential of the model.                                    *)
Next ==
    \/ \E r \in Requests :
          \/ Auth(r, {S1, << >>}, AuthHeaders)
          \/ AuthSteps(r)
          \/ Handler(r, {Given(<<"2">>), Given(<<"a","b","c">>)}, {Absent})
          \/ GetSession(r, Outcomes) \/ Find(r, Outcomes)
    \/ Tick
    \/ Janitor
    \/ InvalidateJWT(Str(tU))
    \/ InvalidateShareToken(Str(STK), Str(S1))
    \/ ShareRevoke

Spec == Init /\ [][Next]_vars

(* One worker serving request after request, for every session id and    *)
(* credential of the model.                                               *)
NextSeq ==
    \/ Auth("w1", SessionIDs, AuthHeaders)
    \/ AuthSteps("w1")
    \/ Handler("w1", {Given(<<"2">>), Given(<<"a","b","c">>)}, {Absent})
    \/ GetSession("w1", Outcomes) \/ Find("w1", Outcomes)
    \/ Finish("w1")
    \/ Tick
    \/ Janitor
    \/ ShareRevoke

SpecSeq == Init /\ [][NextSeq]_vars

(* The TokenCache used directly, as its unit tests do: share entries set  *)
(* with any embedded expiry, looked up, invalidated, swept.               *)
NextCache ==
    \/ CallSetShareToken(SharePairs)
    \/ CallGetShareToken("w1", SharePairs)
    \/ \E p \in SharePairs : InvalidateShareToken(Str(p[1]), Str(p[2]))
    \/ Tick
    \/ Janitor

SpecCache == Init /\ [][NextCache]_vars

(* auditService.GetAuditLogs called with any PaginationParams, up to its  *)
(* first repository call                                                   *)
CallGetAuditLogs(r) ==
    /\ req[r].pc = "idle"
    /\ \E l \in RawLimits, o \in RawOffsets, userID \in {"U", "V"}, isShareToken \in BOOLEAN :
         LET p  == [Limit |-> l, Offset |-> o]
             pg == Validate(p)
         IN  req' = [req EXCEPT ![r] =
                  [IdleReq EXCEPT !.sessionID = S1,
                                  !.userID = userID,
                                  !.tokenType = IF isShareToken THEN "share" ELSE "jwt",
                                  !.paged = TRUE,
                                  !.page = p,
                                  !.limit = pg.Limit,
                                  !.offset = pg.Offset,
                                  !.pc = IF isShareToken THEN "find" ELSE "getSession"]]
    /\ UNCHANGED <<now, cache, shares, jwtSecret, verifyKey, setAt>>

(* one connection sending requests for session S1 with every query, and   *)
(* direct callers of the service                                           *)
NextPage ==
    \/ Auth("w1", {S1}, AuthHeaders)
    \/ AuthSteps("w1")
    \/ Handler("w1", LimitQueries, OffsetQueries)
    \/ CallGetAuditLogs("w1")
    \/ GetSession("w1", Outcomes) \/ Find("w1", Outcomes)
    \/ Finish("w1")
    \/ Tick

SpecPage == Init /\ [][NextPage]_vars

(* the process started with either kind of verification blob: main calls *)
(* NewTokenValidator(cfg.SupabaseJWTSecret), then SetHMACSecret with it    *)
InitJwt ==
    /\ now = 0
    /\ cache = EmptyCache
    /\ req = [r \in Requests |-> IdleReq]
    /\ shares = { <<Str(STK), Str(S1)>> }
    /\ \E blob \in {HmacBlob, RsaPem} :
          /\ jwtSecret = blob
          /\ verifyKey = NewTokenValidator(blob)
    /\ setAt = EmptyCache

(* tokenValidator.ValidateToken called with any token string *)
CallValidateToken(r) ==
    /\ req[r].pc = "idle"
    /\ \E token \in VerifierTokens :
         LET v == ValidateToken(Str(token), verifyKey, jwtSecret, now)
         IN  req' = [req EXCEPT ![r] =
                  [IdleReq EXCEPT !.token = token,
                                  !.nVerify = 1,
                                  !.verdict = IF v.err THEN "rejected" ELSE "accepted",
                                  !.claims = v.claims,
                                  !.at = now,
                                  !.secret = jwtSecret,
                                  !.pc = "done"]]
    /\ UNCHANGED <<now, cache, shares, jwtSecret, verifyKey, setAt>>

(* jwt.SetHMACSecret: the package variable is assigned *)
SetHMACSecret(secrets) ==
    /\ \E secret \in secrets :
          /\ secret # jwtSecret
          /\ jwtSecret' = secret
    /\ UNCHANGED <<now, cache, req, shares, verifyKey, setAt>>

NextJwt ==
    \/ CallValidateToken("w1")
    \/ SetHMACSecret({HmacBlob, RsaPem, "forged"})
    \/ Finish("w1")
    \/ Tick

SpecJwt == InitJwt /\ [][NextJwt]_vars

(* one connection sending requests for session S1 with every form of the *)
(* Authorization header                                                   *)
(* one connection asking for S1 or S0 with the token of user U, with the *)
(* short-lived token of user V or with a signed token without subject     *)
NextOwner ==
    \/ Auth("w1", {S1, S0}, {Bearer \o <<" ">> \o tU, Bearer \o <<" ">> \o tV,
                             Bearer \o <<" ">> \o tS})
    \/ AuthSteps("w1")
    \/ Handler("w1", {Absent}, {Absent})
    \/ GetSession("w1", Outcomes) \/ Find("w1", {"ok"})
    \/ Finish("w1")
    \/ Tick

SpecOwner == Init /\ [][NextOwner]_vars

(* a direct caller of TokenCache.SetJWT with an info of its own *)
CallSetJWT(tokens) ==
    /\ \E token \in tokens, e \in {1, 60} :
         LET tok == Str(token)
             key == getJWTKey(tok)
             info == [UserID |-> "U", SessionID |-> "", ExpiresAt |-> e]
         IN  /\ cache' = CacheSet(cache, key, info, JwtTTL, now)
             /\ setAt' = NoteSet(setAt, key, tok, "", now)
    /\ UNCHANGED <<now, req, shares, jwtSecret, verifyKey>>

(* a direct caller enters TokenCache.GetJWT *)
CallGetJWT(r, tokens) ==
    /\ req[r].pc = "idle"
    /\ \E token \in tokens :
         req' = [req EXCEPT ![r] = [IdleReq EXCEPT !.token = token, !.pc = "jwtGet"]]
    /\ UNCHANGED <<now, cache, shares, jwtSecret, verifyKey, setAt>>

(* TokenCache.GetJWT returns to its direct caller, with a hit or a miss *)
ReturnGetJWT(r) ==
    /\ req[r].pc \in {"handler", "verify"}
    /\ req' = [req EXCEPT ![r] = IdleReq]
    /\ UNCHANGED <<now, cache, shares, jwtSecret, verifyKey, setAt>>

(* goroutines calling GetJWT, SetJWT and InvalidateJWT for one token *)
NextJwtCache ==
    \/ \E r \in Requests :
          \/ CallGetJWT(r, {tU})
          \/ JwtGet(r) \/ JwtCheck(r) \/ JwtDelete(r)
          \/ ReturnGetJWT(r)
    \/ CallSetJWT({tU})
    \/ InvalidateJWT(Str(tU))
    \/ Tick
    \/ Janitor

SpecJwtCache == Init /\ [][NextJwtCache]_vars

(* one connection, with credentials that pass and fail, a session id     *)
(* that GetHistory rejects, and backend calls that fail or time out       *)
StepLive(r) ==
    \/ AuthSteps(r)
    \/ Handler(r, {Absent}, {Absent})
    \/ GetSession(r, {"ok", "deadline"})
    \/ Find(r, {"ok", "deadline"})

NextLive ==
    \/ Auth("w1", {S1, SBad},
            {<<>>, Bearer \o <<" ">> \o tV, <<"B","E","A","R","E","R"," ">> \o tX})
    \/ StepLive("w1")
    \/ Finish("w1")
    \/ Tick

SpecLive == Init /\ [][NextLive]_vars

(* every call the request waits for returns or runs into its deadline *)
SpecLiveFair == SpecLive /\ WF_vars(StepLive("w1"))

NextBearer ==
    \/ Auth("w1", {S1}, HeaderForms)
    \/ AuthSteps("w1")
    \/ Handler("w1", {Absent}, {Absent})
    \/ GetSession("w1", Outcomes) \/ Find("w1", {"ok"})
    \/ Finish("w1")
    \/ Tick

SpecBearer == Init /\ [][NextBearer]_vars

(* direct callers of the service against a backend with every behaviour *)
NextReply ==
    \/ CallGetAuditLogs("w1")
    \/ GetSession("w1", Outcomes \cup {"deadline"}) \/ Find("w1", AuditBehaviours)
    \/ Finish("w1")

SpecReply == Init /\ [][NextReply]_vars

(* the deepest Unwrap chain handed to ToAPIError *)
MaxDepth == 2

RECURSIVE Chains(_)
Chains(n) ==
    IF n = 0 THEN {<< >>}
    ELSE LET shorter == Chains(n - 1)
         IN  shorter \cup { <<layer>> \o err : layer \in Sentinels \cup {"fmt.Errorf", "url.Error"},
                                                err \in {e \in shorter : Len(e) = n - 1} }

(* GetHistory's error branch with any error: c.JSON(apiErr.Status, apiErr) *)
CallToAPIError(r) ==
    /\ req[r].pc = "idle"
    /\ \E err \in Chains(MaxDepth) :
         LET q == [IdleReq EXCEPT !.converted = TRUE, !.errIn = err]
             apiErr == ToAPIError(err)
         IN  req' = [req EXCEPT ![r] = Respond(q, apiErr.Status, apiErr.Code)]
    /\ UNCHANGED <<now, cache, shares, jwtSecret, verifyKey, setAt>>

NextErr == CallToAPIError("w1") \/ Finish("w1")

SpecErr == Init /\ [][NextErr]_vars

----------------------------------------------------------------------------
(* Properties *)

(* history: the request's credential was accepted on its own merits *)
Accepted(q) ==
    IF q.shareToken # << >>
    THEN /\ q.tokenType = "share"
         /\ \/ q.via = "grant" /\ q.grant = "true"
            \/ q.via = "cache" /\ q.live
    ELSE /\ q.tokenType = "jwt"
         /\ \/ q.via = "verified" /\ q.genuine
            \/ q.via = "cache" /\ q.live /\ q.fresh
         /\ q.userID = JwtTable[Str(q.token)].sub

(* C1: an audit_logs query is issued, and a 200 returned, only for a      *)
(* request whose credential was accepted (share: the backend confirmed    *)
(* the grant for exactly this token and session, or a live share-cache    *)
(* entry; bearer: the token was verified or is a live bearer-cache entry) *)
(* and, on the bearer path, only after GetSession returned a session      *)
(* whose user_id is the credential's user_id; in every interleaving.      *)
C1_AuthorizedOnly ==
    \A r \in Requests :
        LET q == req[r]
        IN  (q.nFind > 0 \/ q.status = 200 \/ q.pc = "find") =>
                /\ Accepted(q)
                /\ q.tokenType = "jwt" =>
                       /\ q.nSession = 1
                       /\ q.sessRes = "found"
                       /\ q.owner = q.userID

C1_Witness ==
    \E r \in Requests :
        /\ req[r].status = 200 /\ req[r].tokenType = "jwt" /\ req[r].via = "cache"
        /\ req[r].owner = req[r].userID
        /\ req[Other(r)].pc = "find" /\ req[Other(r)].via = "verified"

(* C2: with a non-empty share_token the Authorization header is never     *)
(* read, the verifier never invoked, the bearer namespace never touched,  *)
(* and a failed share validation is answered 403 without falling through  *)
(* to bearer authentication; without a share_token neither                *)
(* ValidateShareToken nor the share namespace is consulted.               *)
C2_PathsSeparate ==
    \A r \in Requests :
        LET q == req[r]
        IN  IF q.shareToken # << >>
            THEN /\ ~q.readHeader /\ q.nVerify = 0 /\ q.nJwtCache = 0
                 /\ q.tokenType # "jwt" /\ q.token = << >>
                 /\ q.grant \in {"false", "error"} =>
                        q.pc = "done" /\ q.status = 403 /\ q.tokenType = ""
            ELSE /\ q.nShare = 0 /\ q.nShareCache = 0 /\ q.tokenType # "share"

C2_Witness ==
    \E r \in Requests :
        /\ req[r].shareToken # << >> /\ req[r].grant = "false" /\ req[r].status = 403
        /\ req[Other(r)].shareToken = << >> /\ req[Other(r)].via = "verified"

(* C3: on the bearer path, when the session exists and its owner is not   *)
(* the credential's user, the answer is 403 forbidden and the audit list  *)
(* query is never issued.                                                 *)
C3_OwnershipViolation ==
    \A r \in Requests :
        LET q == req[r]
        IN  (q.tokenType = "jwt" /\ q.sessRes = "found" /\ q.owner # q.userID) =>
                /\ q.pc = "done" /\ q.status = 403 /\ q.code = "forbidden"
                /\ q.nFind = 0

C3_Witness ==
    \E r \in Requests :
        req[r].sessRes = "found" /\ req[r].owner = "U" /\ req[r].userID = "V"

(* C4: on the share path GetSession is never called and no ownership      *)
(* comparison is made: once the handler has accepted the request the      *)
(* audit list is fetched, whoever owns the session.                       *)
C4_ShareSkipsOwnership ==
    \A r \in Requests :
        LET q == req[r]
        IN  q.tokenType = "share" =>
                /\ q.nSession = 0 /\ q.sessRes = "" /\ q.pc # "getSession"
                /\ (q.ran /\ q.status # 400) =>
                       \/ q.pc = "find" /\ q.nFind = 0
                       \/ q.pc = "done" /\ q.nFind = 1

C4_Witness ==
    \E r \in Requests :
        /\ req[r].tokenType = "share" /\ req[r].status = 200
        /\ req[r].userID # "U" /\ SessionRows(Str(req[r].sessionID))[1].user_id = "U"

NoNegativeEntry ==
    \A tok \in DOMAIN JwtTable :
        getJWTKey(tok) \in DOMAIN cache =>
            /\ JwtTable[tok].key = HmacBlob
            /\ cache[getJWTKey(tok)].Object.UserID = JwtTable[tok].sub
            /\ cache[getJWTKey(tok)].Object.ExpiresAt = JwtTable[tok].exp

VerifyStep(r) == req[r].pc = "verify" /\ req'[r].pc # "verify"

ShareValidateStep(r) == req[r].pc = "shareValidate" /\ req'[r].pc # "shareValidate"

(* C6: on a share-cache miss, a ValidateShareToken that returns false or  *)
(* an error is answered 403 forbidden, the handler does not run and       *)
(* nothing is written to the cache, so a lookup of a pair that was never  *)
(* validated successfully (or not within share_ttl) misses and the        *)
(* backend is asked again.                                                *)
C6_ShareValidationFailure ==
    [][\A r \in Requests :
        LET key == getShareTokenKey(Str(req[r].shareToken), Str(req[r].sessionID))
        IN  /\ (ShareValidateStep(r) /\ req'[r].grant # "true") =>
                   /\ req'[r].pc = "done" /\ req'[r].status = 403
                   /\ req'[r].code = "forbidden"
                   /\ ~req'[r].ran /\ req'[r].tokenType = ""
                   /\ cache' = cache
            /\ (req[r].pc = "shareGet" /\ req'[r].pc # "shareGet"
                   /\ ~Live(key, ShareTTL, Str(req[r].shareToken), Str(req[r].sessionID))) =>
                   req'[r].pc = "shareValidate"]_vars

C6_Witness ==
    \E r \in Requests :
        /\ req[r].status = 403 /\ req[r].grant = "error" /\ req[r].shareToken = STK
        /\ req[Other(r)].shareToken = STK /\ req[Other(r)].sessionID = req[r].sessionID
        /\ req[Other(r)].pc = "shareValidate"
        /\ req[r].nShare = 1

(* C7: a request whose bearer token was verified and cached by an earlier *)
(* request, looked up within jwt_ttl of that SetBearer and before the     *)
(* token's exp with no invalidation in between, is served from the cache: *)
(* it gets the token's user_id without invoking the verifier; the         *)
(* verifier runs at most once per request, exactly once for the request   *)
(* that missed; and two answered requests for the same session and page   *)
(* carry identical bodies.                                                *)
C7_SecondFromCache ==
    /\ \A r \in Requests :
          LET q == req[r]
          IN  /\ q.nVerify <= 1
              /\ q.via = "verified" => q.nVerify = 1
              /\ (q.nJwtCache >= 1 /\ q.live /\ q.fresh) =>
                     \/ q.pc = "jwtCheck" /\ q.got.found
                     \/ /\ q.via = "cache" /\ q.nVerify = 0 /\ q.nJwtCache = 1
                        /\ q.userID = JwtTable[Str(q.token)].sub
    /\ \A r1, r2 \in Requests :
          (/\ req[r1].status = 200 /\ req[r2].status = 200
           /\ req[r1].sessionID = req[r2].sessionID
           /\ req[r1].limit = req[r2].limit /\ req[r1].offset = req[r2].offset)
          => req[r1].body = req[r2].body

C7_Witness ==
    \E r \in Requests :
        /\ req[r].status = 200 /\ req[r].via = "verified" /\ req[r].nVerify = 1
        /\ req[Other(r)].status = 200 /\ req[Other(r)].via = "cache"
        /\ req[Other(r)].token = req[r].token /\ req[Other(r)].nVerify = 0
        /\ req[Other(r)].body = req[r].body /\ Len(req[r].body.items) = 2

JwtKeyOf(r) == getJWTKey(Str(req[r].token))

(* a GetJWT lookup starts on a stored entry whose ExpiresAt has passed *)
StoredExpired(r) ==
    /\ req[r].pc = "jwtGet"
    /\ JwtKeyOf(r) \in DOMAIN cache
    /\ cache[JwtKeyOf(r)].Object.ExpiresAt <= now

(* C9 as stated: GetBearer on a stored entry whose expires_at has passed  *)
(* returns a miss and has deleted that entry when it returns.             *)
C9_AsStated ==
    [][\A r \in Requests :
        (StoredExpired(r) /\ cache[JwtKeyOf(r)].Object.ExpiresAt < now
           /\ req'[r].pc = "verify") =>
            JwtKeyOf(r) \notin DOMAIN cache']_vars

(* C9, amended: GetBearer on a stored entry whose expires_at is not in    *)
(* the future returns a miss; it deletes that entry, and only that entry, *)
(* when the entry's cache TTL has not elapsed at the lookup; an entry     *)
(* whose TTL has elapsed too is left stored and counted until the sweep,  *)
(* and is a miss for every lookup all the same.                           *)
C9_ExpiredIsMiss ==
    [][\A r \in Requests :
        /\ (StoredExpired(r) /\ req'[r].pc # "jwtGet") =>
               /\ cache' = cache
               /\ IF now > cache[JwtKeyOf(r)].Expiration
                  THEN req'[r].pc = "verify" /\ ~req'[r].got.found
                  ELSE req'[r].pc = "jwtCheck"
        /\ (req[r].pc = "jwtCheck" /\ req'[r].pc # "jwtCheck"
               /\ req[r].got.info.ExpiresAt <= now) =>
               req'[r].pc = "jwtDelete" /\ req'[r].via = "" /\ cache' = cache
        /\ (req[r].pc = "jwtDelete" /\ req'[r].pc # "jwtDelete") =>
               /\ req'[r].pc = "verify" /\ req'[r].via = ""
               /\ DOMAIN cache' = DOMAIN cache \ {JwtKeyOf(r)}
               /\ \A k \in DOMAIN cache' : cache'[k] = cache[k]
               /\ ItemCount(cache') = Cardinality(DOMAIN cache \ {JwtKeyOf(r)})
               /\ ~CacheGet(cache', JwtKeyOf(r), now).found]_vars

C9_Witness ==
    \E r \in Requests :
        /\ req[r].pc = "jwtDelete"
        /\ JwtKeyOf(r) \in DOMAIN cache
        /\ cache[JwtKeyOf(r)].Object.ExpiresAt <= now
        /\ now <= cache[JwtKeyOf(r)].Expiration

(* C10: a GetBearer hit implies that the lookup was within jwt_ttl of the *)
(* most recent SetBearer of that token and that the expiry check ran      *)
(* strictly before the entry's expires_at; a run of the sweep changes the *)
(* outcome of no lookup.                                                  *)
C10_HitIsLive ==
    /\ [](\A r \in Requests :
            (req[r].tokenType = "jwt" /\ req[r].via = "cache") =>
                /\ req[r].live /\ req[r].fresh
                /\ req[r].got.info.ExpiresAt = JwtTable[Str(req[r].token)].exp)
    /\ [][cache' = CacheDeleteExpired(cache, now) =>
            \A k \in DOMAIN cache : CacheGet(cache', k, now) = CacheGet(cache, k, now)]_vars

C10_Witness ==
    \E r \in Requests :
        /\ req[r].tokenType = "jwt" /\ req[r].via = "cache" /\ req[r].pc = "handler"
        /\ now = JwtTTL
        /\ setAt[JwtKeyOf(r)].at = 0
        /\ now < req[r].got.info.ExpiresAt

(* a direct GetShareToken call by r returns *)
GetShareStep(r) ==
    /\ req'[r] # req[r]
    /\ req'[r].pc = "idle" /\ req'[r].nShareCache = 1

ShareKeyOf(q) == getShareTokenKey(Str(q.shareToken), Str(q.sessionID))

C12_AsStated ==
    \A r, o \in Requests :
        (/\ req[r].tokenType = "jwt" /\ req[r].via = "cache"
         /\ req[o].via = "verified" /\ req[o].token = req[r].token)
        => ~req[o].overtaken

(* C13 as stated: a GetShare(t, s) hit returns only an entry that was     *)
(* stored for exactly the pair (t, s): the pair's key is the key of no    *)
(* other pair.                                                            *)
C13_AsStated ==
    \A r \in Requests :
        (req[r].nShareCache = 1 /\ req[r].got.found) =>
            /\ req[r].got.info.SessionID = Str(req[r].sessionID)
            /\ \A p \in SharePairs :
                   getShareTokenKey(Str(p[1]), Str(p[2])) = ShareKeyOf(req[r])
                       => p = <<req[r].shareToken, req[r].sessionID>>

(* C14 as stated: on a bearer-cache miss every token the verifier accepts *)
(* goes on to be cached with its subject as user_id and to the handler;   *)
(* the Authorizer never fails after a successful verification.            *)
C14_AsStated ==
    [][\A r \in Requests :
        (VerifyStep(r)
           /\ ~ValidateToken(Str(req[r].token), verifyKey, jwtSecret, now).err) =>
            /\ req'[r].pc = "jwtSet"
            /\ req'[r].claims.UserID = JwtTable[Str(req[r].token)].sub
            /\ req'[r].status = 0]_vars

(* C15: ValidateShareToken returns (true, nil) exactly when the reply has *)
(* at least one row and (false, nil) when it is empty, whatever the row's *)
(* expires_at; a request whose grant row expired long ago is authorized   *)
(* on the share path, and one with no row is answered 403.                *)
C15_RowsDecide ==
    /\ \A rows \in ShareReplies :
          RepoValidateShareToken("ok", rows) = [valid |-> Len(rows) >= 1, err |-> FALSE]
    /\ \A r \in Requests :
          LET q == req[r]
          IN  /\ q.grant = "true" =>
                     \/ q.pc = "shareSet"
                     \/ q.tokenType = "share" /\ q.via = "grant"
              /\ q.grant = "false" =>
                     q.pc = "done" /\ q.status = 403 /\ q.tokenType = ""

C15_Witness ==
    \E r \in Requests :
        /\ req[r].grant = "true" /\ req[r].via = "grant" /\ req[r].status = 200
        /\ req[Other(r)].grant = "false" /\ req[Other(r)].status = 403

(* C16: on the bearer path an empty sessions array makes GetSession       *)
(* return SessionNotFound and GetAuditLogs NotFound: the answer is 404    *)
(* not_found and FindBySessionID is never called; a SessionNotFound       *)
(* coming from FindBySessionID is translated to NotFound as well.         *)
C16_SessionMissing ==
    /\ RepoGetSession("ok", << >>).err = <<"ErrSessionNotFound">>
    /\ \A u \in {"U", "V", ""} :
          validateOwnership(RepoGetSession("ok", << >>), u) = <<"ErrNotFound">>
    /\ \A err \in {<<"ErrSessionNotFound">>, Errorf(<<"ErrSessionNotFound">>)} :
          /\ findError(err) = <<"ErrNotFound">>
          /\ ToAPIError(findError(err)) = [Status |-> 404, Code |-> "not_found"]
    /\ \A r \in Requests :
          LET q == req[r]
          IN  (q.tokenType = "jwt" /\ q.sessRes = "notfound") =>
                  /\ q.pc = "done" /\ q.status = 404 /\ q.code = "not_found"
                  /\ q.nFind = 0 /\ q.body = NoBody

C16_Witness ==
    \E r \in Requests :
        /\ req[r].sessRes = "notfound" /\ req[r].status = 404
        /\ req[r].userID = "U" /\ req[r].sessionID = S3

C18_AsStated ==
    \A r \in Requests :
        LET q == req[r]
        IN  (q.pc = "done" /\ q.sessionID # << >> /\ ~isValidUUID(q.sessionID)) =>
                q.status = 400 /\ q.code = "bad_request"

(* C18, amended: a request whose path session_id is non-empty and no      *)
(* canonical UUID is answered 400 bad_request once the Authorizer has let *)
(* it through; one the Authorizer does not let through gets 401, 403 on   *)
(* the share path, or the 500 of the crash on a token without exp; in no  *)
(* case is the Audit Service invoked for it.                              *)
C18_BadSessionID ==
    \A r \in Requests :
        LET q == req[r]
        IN  q.sessionID \in {SBad, SNotHex} =>
                /\ q.nSession = 0 /\ q.nFind = 0 /\ q.status # 200
                /\ q.pc \notin {"getSession", "find"}
                /\ q.ran => q.pc = "done" /\ q.status = 400 /\ q.code = "bad_request"
                /\ (q.pc = "done" /\ ~q.ran) =>
                       \/ q.status = 401 /\ q.shareToken = << >>
                       \/ q.status = 403 /\ q.shareToken # << >>
                       \/ q.status = 500 /\ q.token = tN

C18_Witness ==
    \E r \in Requests :
        /\ req[r].sessionID = SNotHex /\ req[r].status = 400 /\ req[r].ran
        /\ req[r].userID = "U" /\ req[r].via = "cache"

(* C19 as stated: an authenticated request with a valid session id whose  *)
(* limit or offset is present and is no integer or is negative gets 400   *)
(* bad_request, and neither the Audit Service nor the backend is invoked  *)
(* for it.                                                                *)
C19_AsStated ==
    \A r \in Requests :
        LET q == req[r]
        IN  ( /\ q.ran /\ q.sessionID = S1
              /\ \/ q.limitQ \in {Given(<<"-","1">>), Given(<<"a","b","c">>), Given(<< >>)}
                 \/ q.offsetQ \in {Given(<<"-","3">>), Given(<<"1","x">>)} ) =>
                /\ q.status = 400 /\ q.code = "bad_request"
                /\ q.nSession = 0 /\ q.nFind = 0 /\ q.nShare = 0

(* C19, amended: for an authenticated request with a valid session id, a  *)
(* limit or offset that is present and is no integer or is negative gives *)
(* 400 bad_request; the Audit Service is not invoked and no ownership     *)
(* fetch or list query is sent (the Authorizer may have queried the       *)
(* backend for the share token before); an absent parameter is passed as  *)
(* limit 50, offset 0; limit 0 is accepted and reaches normalization.     *)
C19_QueryParsing ==
    \A r \in Requests :
        LET q == req[r]
            badLimit  == q.limitQ \in {Given(<<"-","1">>), Given(<<"a","b","c">>), Given(<< >>)}
            badOffset == q.offsetQ \in {Given(<<"-","3">>), Given(<<"1","x">>)}
        IN  (q.ran /\ q.sessionID = S1) =>
              /\ (badLimit \/ badOffset) =>
                     /\ q.pc = "done" /\ q.status = 400 /\ q.code = "bad_request"
                     /\ ~q.paged /\ q.nSession = 0 /\ q.nFind = 0
              /\ ~(badLimit \/ badOffset) =>
                     /\ q.paged /\ q.status # 400
                     /\ q.limitQ = Absent => q.page.Limit = 50
                     /\ q.offsetQ = Absent => q.page.Offset = 0
                     /\ q.limitQ = Given(<<"0">>) => q.page.Limit = 0 /\ q.limit = 50
                     /\ q.limitQ = Given(<<"2">>) => q.page.Limit = 2
                     /\ q.limitQ = Given(<<"5","0","0">>) => q.page.Limit = 500
                     /\ q.offsetQ = Given(<<"1">>) => q.page.Offset = 1

C19_Witness ==
    \E r \in Requests :
        /\ req[r].ran /\ req[r].sessionID = S1 /\ req[r].tokenType = "share"
        /\ req[r].nShare = 1
        /\ req[r].limitQ = Given(<<"2">>) /\ req[r].offsetQ = Given(<<"-","3">>)
        /\ req[r].status = 400

(* C20: Validate maps the pagination GetAuditLogs received to 1 <= limit  *)
(* <= 100 and offset >= 0 (limit <= 0 to 50, limit > 100 to 100, offset   *)
(* < 0 to 0, the rest unchanged), a second Validate changes nothing, and  *)
(* FindBySessionID is only called with the normalized values.             *)
C20_Normalized ==
    \A r \in Requests :
        LET q == req[r]
            limit  == IF q.page.Limit <= 0 THEN 50
                      ELSE IF q.page.Limit > 100 THEN 100 ELSE q.page.Limit
            offset == IF q.page.Offset < 0 THEN 0 ELSE q.page.Offset
        IN  /\ (q.pc = "find" \/ q.nFind > 0) => q.paged
            /\ q.paged =>
                  /\ q.limit = limit /\ q.offset = offset
                  /\ 1 <= q.limit /\ q.limit <= 100 /\ q.offset >= 0
                  /\ Validate(q.page) = [Limit |-> limit, Offset |-> offset]
                  /\ Validate(Validate(q.page)) = Validate(q.page)
                  /\ q.status = 200 =>
                        q.body.items = Page(AuditRows(Str(q.sessionID)), limit, offset)

C20_Witness ==
    \E r \in Requests :
        /\ req[r].ran /\ req[r].limitQ = Given(<<"5","0","0">>) /\ req[r].offsetQ = Absent
        /\ req[r].page = [Limit |-> 500, Offset |-> 0]
        /\ req[r].limit = 100 /\ req[r].nFind = 1 /\ req[r].status = 200

C21_AsStated ==
    \A r \in Requests :
        LET q == req[r]
        IN  (q.status = 200 /\ q.paged) =>
                /\ Len(q.body.items) <= q.limit
                /\ q.body.totalCount >= Len(q.body.items)

(* C22 as stated: in every 200 response items is a sequence, never null,  *)
(* also when the backend's body was an empty array or null.               *)
C22_AsStated ==
    \A r \in Requests :
        req[r].status = 200 => ~req[r].body.itemsNull

(* C28: for a reply with status below 400 the total is the number after   *)
(* the slash of a Content-Range of the form <start>-<end>/<total>, and 0  *)
(* for a header that is absent or not of that form; such a header never   *)
(* makes Get or FindBySessionID fail.                                     *)
C28_TotalFromHeader ==
    /\ \A behaviour \in {"noRange", "noTotal", "junkRange"} :
          LET reply == BackendReply(behaviour, FindQuery(S1, 50, 0))
          IN  /\ Get(reply) = [data |-> reply.body, count |-> 0, err |-> << >>]
              /\ RepoFindBySessionID(behaviour, S1, 50, 0).err = << >>
    /\ \A r \in Requests :
          LET q == req[r]
              h == q.reply.contentRange
              digits(a, b) == a <= b /\ \A k \in a..b : IsDigit(h[k])
              formed == { <<i, j>> \in (1..Len(h)) \X (1..Len(h)) :
                            /\ h[i] = "-" /\ h[j] = "/"
                            /\ digits(1, i - 1) /\ digits(i + 1, j - 1)
                            /\ digits(j + 1, Len(h)) }
          IN  (q.status = 200 /\ q.nFind = 1) =>
                /\ q.reply.status < 400 /\ ~q.reply.failed
                /\ \A ij \in formed :
                      q.body.totalCount = DigitsVal(SubSeq(h, ij[2] + 1, Len(h)))
                /\ formed = {} => q.body.totalCount = 0

C28_Witness ==
    \E r \in Requests :
        /\ req[r].status = 200 /\ req[r].nFind = 1
        /\ req[r].reply.contentRange = <<"0", "-", "0", "/", "3">>
        /\ req[r].body.totalCount = 3 /\ Len(req[r].body.items) = 1

(* C29: every audit list query carries session_id = eq.<session id>,      *)
(* order = timestamp.desc and the normalized limit and offset; the        *)
(* entries of a 200 response are those of the backend's reply, in its     *)
(* order, none dropped or added; with a backend that honours the order    *)
(* they are non-increasing by timestamp.                                  *)
C29_QueryAndOrder ==
    \A r \in Requests :
        LET q == req[r]
        IN  q.nFind = 1 =>
              /\ q.sent.session_id = <<"e", "q", ".">> \o q.sessionID
              /\ q.sent.order = "timestamp.desc"
              /\ Atoi(q.sent.limit) = [err |-> FALSE, val |-> q.limit]
              /\ Atoi(q.sent.offset) = [err |-> FALSE, val |-> q.offset]
              /\ 1 <= q.limit /\ q.limit <= 100 /\ q.offset >= 0
              /\ q.page.Limit = 500 => q.sent.limit = <<"1", "0", "0">>
              /\ q.page.Offset = -5 => q.sent.offset = <<"0">>
              /\ q.status = 200 =>
                    /\ q.body.items = q.reply.body.rows
                    /\ \A i, j \in 1..Len(q.body.items) :
                          i < j => q.body.items[i].timestamp >= q.body.items[j].timestamp

C29_Witness ==
    \E r \in Requests :
        /\ req[r].nFind = 1 /\ req[r].status = 200
        /\ req[r].page = [Limit |-> 500, Offset |-> -5]
        /\ req[r].sent.limit = <<"1", "0", "0">>
        /\ Len(req[r].body.items) = 3
        /\ req[r].body.items[1].timestamp > req[r].body.items[3].timestamp

(* C24 as stated: on the bearer path a token is extracted exactly when    *)
(* the trimmed Authorization header is the scheme bearer in any case, at  *)
(* least one whitespace character and a non-empty token, and the token is *)
(* the trimmed remainder; every other header gives 401 with no verifier   *)
(* call and no cache access.                                              *)
C24_AsStated ==
    \A r \in Requests :
        LET q == req[r]
            h == TrimSpace(q.header)
            wellFormed == /\ Len(h) >= 8
                          /\ ToLower(SubSeq(h, 1, 6)) = <<"b","e","a","r","e","r">>
                          /\ IsSpace(h[7])
        IN  q.readHeader =>
              /\ wellFormed => q.token = TrimSpace(SubSeq(h, 8, Len(h)))
              /\ ~wellFormed =>
                    /\ q.token = << >>
                    /\ q.pc = "done" /\ q.status = 401
                    /\ q.nVerify = 0 /\ q.nJwtCache = 0 /\ q.nShareCache = 0

(* C25: ValidateToken accepts no token whose algorithm class disagrees    *)
(* with the mode: with an RSA key only RSA-signed tokens, without one     *)
(* only HMAC-signed tokens, and tokens of any other class (RSA-PSS,       *)
(* ECDSA, none) in neither mode; the mode never changes.                  *)
C25_AlgorithmClass ==
    /\ [](\A r \in Requests :
            LET q == req[r]
            IN  q.verdict = "accepted" =>
                  /\ Str(q.token) \in DOMAIN JwtTable
                  /\ verifyKey = "nil" => JwtTable[Str(q.token)].alg = "HMAC"
                  /\ verifyKey # "nil" => JwtTable[Str(q.token)].alg = "RSA")
    /\ [][verifyKey' = verifyKey]_vars

C25_Witness ==
    \E r \in Requests :
        /\ req[r].verdict = "rejected" /\ req[r].token = tK
        /\ verifyKey = RsaKey /\ req[r].secret = RsaPem

(* C26 as stated: in HMAC mode an accepted token was signed with the blob *)
(* the verifier was constructed with, whatever calls of SetHMACSecret     *)
(* happen.                                                                *)
C26_AsStated ==
    \A r \in Requests :
        (req[r].verdict = "accepted" /\ verifyKey = "nil") =>
            JwtTable[Str(req[r].token)].key = HmacBlob

(* C27 as stated: ValidateToken rejects a token whose exp is present and  *)
(* not later than the time of the call, and one whose iat is present and  *)
(* later than it; a token with the right algorithm and signature whose    *)
(* exp and iat are absent or pass is accepted; accepted claims carry the  *)
(* token's subject as user id.                                            *)
C27_AsStated ==
    \A r \in Requests :
        LET q == req[r]
            j == JwtTable[Str(q.token)]
            signed == \/ verifyKey = "nil" /\ j.alg = "HMAC" /\ j.key = q.secret
                      \/ verifyKey # "nil" /\ j.alg = "RSA" /\ j.key = verifyKey
            expOk == j.exp = NilTime \/ q.at < j.exp
            iatOk == j.iat = NilTime \/ j.iat <= q.at
        IN  (q.verdict # "" /\ Str(q.token) \in DOMAIN JwtTable) =>
              /\ ~expOk => q.verdict = "rejected"
              /\ ~iatOk => q.verdict = "rejected"
              /\ (signed /\ expOk /\ iatOk) => q.verdict = "accepted"
              /\ q.verdict = "accepted" => q.claims.UserID = j.sub

(* C30: the backend calls made for a request are all GETs, and a step of  *)
(* request handling leaves the backend's data and every process variable  *)
(* other than the credential cache as they were.                          *)
C30_ReadOnly ==
    /\ [](\A r \in Requests : req[r].methods \subseteq {"GET"})
    /\ [][req' # req =>
            /\ shares' = shares
            /\ jwtSecret' = jwtSecret
            /\ verifyKey' = verifyKey]_vars

C30_Witness ==
    \E r \in Requests :
        /\ req[r].pc = "done" /\ req[r].status = 200
        /\ req[r].nShare = 1 /\ req[r].nFind = 1 /\ req[r].methods = {"GET"}
        /\ cache # EmptyCache
        /\ <<Str(STK), Str(S1)>> \in shares


(* C31 as stated: no backend query (share validation, session fetch,      *)
(* audit list) is issued for a request whose path session id is not a     *)
(* canonical UUID.                                                        *)
C31_AsStated ==
    \A r \in Requests :
        (req[r].nShare > 0 \/ req[r].nSession > 0 \/ req[r].nFind > 0) =>
            isValidUUID(req[r].sessionID)


(* C32 as stated: on the bearer path a 200 response implies a non-empty   *)
(* user id; a signed token without subject gets the entries of no         *)
(* session, not even of one whose stored owner is empty.                  *)
C32_AsStated ==
    \A r \in Requests :
        (req[r].pc = "done" /\ req[r].status = 200 /\ req[r].tokenType = "jwt") =>
            req[r].userID # ""


JwtSetStep(r) == req[r].pc = "jwtSet" /\ req'[r].pc # "jwtSet"

(* C33: requests carrying the same valid bearer token, in any             *)
(* interleaving, are all authenticated with the token's subject; each     *)
(* calls the verifier at most once and is served from the cache only when *)
(* it did not; every SetJWT of the token writes the same entry (subject   *)
(* and exp) under the token's one key and touches no other key, so a      *)
(* second concurrent write leaves the stored credential as it was.        *)
C33_ConcurrentSameToken ==
    /\ [](\A r \in Requests :
            /\ req[r].nVerify <= 1
            /\ req[r].tokenType = "jwt" =>
                 /\ req[r].userID = JwtTable[Str(req[r].token)].sub
                 /\ \/ req[r].via = "verified" /\ req[r].nVerify = 1
                    \/ req[r].via = "cache" /\ req[r].nVerify = 0)
    /\ [][\A r \in Requests :
            LET tok == Str(req[r].token)
                key == getJWTKey(tok)
            IN  JwtSetStep(r) =>
                  /\ DOMAIN cache' = DOMAIN cache \cup {key}
                  /\ cache'[key].Object.UserID = JwtTable[tok].sub
                  /\ cache'[key].Object.ExpiresAt = JwtTable[tok].exp
                  /\ key \in DOMAIN cache => cache'[key].Object = cache[key].Object
                  /\ \A k \in DOMAIN cache \ {key} : cache'[k] = cache[k]]_vars

C33_Witness ==
    /\ req["w1"].token = tU /\ req["w2"].token = tU
    /\ req["w1"].via = "verified" /\ req["w2"].via = "verified"
    /\ req["w1"].nVerify = 1 /\ req["w2"].nVerify = 1
    /\ req["w1"].userID = "U" /\ req["w2"].userID = "U"
    /\ getJWTKey("tU") \in DOMAIN cache
    /\ cache[getJWTKey("tU")].Object.ExpiresAt = 60


JwtDeleteStep(r) == req[r].pc = "jwtDelete" /\ req'[r].pc # "jwtDelete"

(* C34 as stated: in every interleaving of GetJWT, SetJWT and             *)
(* InvalidateJWT on one token, the Delete inside GetJWT removes only an   *)
(* entry whose ExpiresAt is not in the future.                            *)
C34_AsStated ==
    [][\A r \in Requests :
         LET key == getJWTKey(Str(req[r].token))
         IN  (JwtDeleteStep(r) /\ key \in DOMAIN cache) =>
                 ~(now < cache[key].Object.ExpiresAt)]_vars


(* C35 as stated: a request whose session fetch or audit list call ran    *)
(* into its deadline is answered 504 with the code timeout.               *)
C35_AsStated ==
    \A r \in Requests :
        (req[r].pc = "done" /\ req[r].timedOut) =>
            req[r].status = 504 /\ req[r].code = "timeout"


C37_BoundedFanOut ==
    \A r \in Requests :
        LET q == req[r]
        IN  /\ q.nShare <= 1 /\ q.nSession <= 1 /\ q.nFind <= 1
            /\ q.nShare + q.nSession + q.nFind <= 2
            /\ q.nShare = 1 =>
                  /\ q.shareToken # << >> /\ q.nShareCache >= 1
                  /\ ~q.got.found /\ q.via # "cache" /\ q.nSession = 0
            /\ q.nSession = 1 => q.tokenType = "jwt" /\ q.shareToken = << >>
            /\ q.grant = "error" => q.pc = "done" /\ q.nFind = 0
            /\ q.sessRes = "error" => q.pc = "done" /\ q.nFind = 0
            /\ q.findRes = "error" => q.pc = "done"

C37_Witness ==
    \E r \in Requests :
        /\ req[r].pc = "done" /\ req[r].sessRes = "error" /\ req[r].nSession = 1
        /\ req[r].nFind = 0 /\ req[r].status = 500
        /\ req[Other(r)].nShare = 1 /\ req[Other(r)].nFind = 1 /\ req[Other(r)].status = 200


(* C38: for a backend reply with status 400 or more to the audit list     *)
(* query, Get returns no body, an error, and the status as its count;     *)
(* FindBySessionID returns no entries, total 0 and an error; a request    *)
(* whose FindBySessionID failed is answered with an error and no          *)
(* AuditResponse.                                                         *)
C38_StatusNotATotal ==
    \A r \in Requests :
        LET q == req[r]
        IN  q.nFind = 1 =>
              /\ LET reply == BackendReply("status", q.sent)
                     got   == Get(reply)
                     res   == RepoFindBySessionID("status", q.sessionID, q.limit, q.offset)
                 IN  /\ reply.status >= 400
                     /\ got.data = NoData /\ got.err # << >> /\ got.count = reply.status
                     /\ res.sent = q.sent
                     /\ res.entries = NilSlice /\ res.total = 0 /\ res.err # << >>
              /\ q.findRes = "error" =>
                     /\ q.pc = "done" /\ q.status >= 400 /\ q.code # ""
                     /\ q.body = NoBody

C38_Witness ==
    \E r \in Requests :
        /\ req[r].nFind = 1 /\ req[r].findRes = "error" /\ req[r].pc = "done"
        /\ req[r].status = 500 /\ req[r].body = NoBody
        /\ req[r].sent = FindQuery(S1, 100, 3)


ShareObs(c, p, t) == CacheGet(c, getShareTokenKey(Str(p[1]), Str(p[2])), t)

(* C39 as stated: a SetShareToken or InvalidateShareToken changes what    *)
(* the cache holds for at most the one pair it addresses: the lookups of  *)
(* all other pairs give the same result after the operation as before.    *)
C39_AsStated ==
    [][cache' # cache =>
         \E p \in SharePairs :
            \A p2 \in SharePairs \ {p} :
                ShareObs(cache', p2, now) = ShareObs(cache, p2, now)]_vars

====
